---- MODULE Spec2Model ----
(***************************************************************************)
(* RhythmAI (cesarsm24/rhythmai): the vector stores (FAISS and ChromaDB),   *)
(* the recommender pipeline and the per-user memory, as a state machine.    *)
(*                                                                          *)
(* Abstractions.  An embedding is a unit direction, an integer 0..MaxEmb    *)
(* on a line; the distance between two of them is the squared difference,   *)
(* which orders pairs exactly as the L2 distance of FAISS and the cosine    *)
(* distance of ChromaDB order unit vectors.  Of a song's metadata only the  *)
(* id and the genre are kept: every other field is copied through by the    *)
(* code and never read by it.  The sentiment and embedding models are       *)
(* black boxes: the emotion they produce for a text is an input.            *)
(***************************************************************************)
EXTENDS Integers, Sequences, FiniteSets, TLC

VARIABLES
    backend,      \* Config.VECTOR_STORE: "faiss" or "chroma"
    index,        \* FAISSStore.index: the indexed vectors, in insertion order
    metadata,     \* FAISSStore.metadata: one entry per add_songs song
    id_to_idx,    \* FAISSStore.id_to_idx: song id -> position
    collection,   \* ChromaStore.collection: records [id, genre, emb]
    disk,         \* what the store's directory holds (faiss.index + metadata.pkl)
    history_file, \* <user>_history.json
    profile,      \* UserProfile.profile (in memory)
    profile_file, \* <user>_profile.json
    clock,        \* datetime.now(), counted in calls
    recorded,     \* every interaction written so far, oldest first (history of the run)
    secure_files, \* SecureStorage.storage_path: key -> contents of <key>.secure
    ret           \* what the last operation returned

vars == <<backend, index, metadata, id_to_idx, collection, disk,
          history_file, profile, profile_file, clock, recorded, secure_files, ret>>

storeVars == <<index, metadata, id_to_idx, collection, disk>>
memVars == <<history_file, profile, profile_file, clock, recorded, secure_files>>

----------------------------------------------------------------------------
(* Bounds *)

MaxSongs == 2      \* SpecStore: the largest store built, and the largest batch
MaxK == 2          \* SpecStore: the largest n_results of a search
MaxPlaylists == 2  \* SpecRank: playlists in the ingested catalogue
MaxTracks == 2     \* SpecRank: tracks of one playlist
MaxRankK == 2      \* SpecRank: the largest n_results of recommend
MemTracks == 3     \* Spec: tracks of the catalogue
MemK == 2          \* Spec: the n_results of recommend
DiskSongs == 2     \* SpecDisk: the most vectors in the index, and the largest batch

Ids == {1, 2, 3}
Emb == {0, 1}
CatalogueGenres == {"rock", "workout", "pop"}
StoreGenres == {"rock", "pop"}
NoFilter == "<none>"
None == "<None>"
NoData == [is_none |-> TRUE]   \* emotion_data=None
NoTime == 0                    \* a timestamp that is None

----------------------------------------------------------------------------
(* Sequence helpers *)

Min(a, b) == IF a < b THEN a ELSE b

Take(s, n) == SubSeq(s, 1, Min(n, Len(s)))

Drop(s, n) == SubSeq(s, Min(n, Len(s)) + 1, Len(s))

LastN(s, n) == SubSeq(s, Len(s) - Min(n, Len(s)) + 1, Len(s))

Range(s) == {s[i] : i \in DOMAIN s}

Dist(a, b) == (a - b) * (a - b)

\* The positions of `cands`, nearest to q first; equal distances in position order.
NearestFirst(vecs, cands, q) ==
    LET before(i, j) == \/ Dist(vecs[i], q) < Dist(vecs[j], q)
                        \/ Dist(vecs[i], q) = Dist(vecs[j], q) /\ i < j
        rank(i) == Cardinality({j \in cands : before(j, i)}) + 1
    IN  [r \in 1..Cardinality(cands) |-> CHOOSE i \in cands : rank(i) = r]

----------------------------------------------------------------------------
(* FAISSStore *)

EmptyIdMap == [i \in {} |-> 0]

FaissCount == Len(index)

FaissSearchUnfiltered(q, n_results, filter) ==
    IF FaissCount = 0 THEN <<>>
    ELSE
      LET search_k == Min(IF filter # NoFilter THEN n_results * 2 ELSE n_results, FaissCount)
          hits == Take(NearestFirst(index, 1..Len(index), q), search_k)
          out == Take(SelectSeq(hits, LAMBDA idx : idx <= Len(metadata)), n_results)
      IN  [r \in 1..Len(out) |->
              [id |-> metadata[out[r]].id, genre |-> metadata[out[r]].genre,
               distance |-> Dist(index[out[r]], q)]]

\* FAISSStore.search
FaissSearch(q, n_results, filter) ==
    IF FaissCount = 0 THEN <<>>
    ELSE
      LET search_k == Min(IF filter # NoFilter THEN n_results * 2 ELSE n_results, FaissCount)
          hits == Take(NearestFirst(index, 1..Len(index), q), search_k)
          keep(idx) == /\ idx <= Len(metadata)
                       /\ (filter # NoFilter => metadata[idx].genre = filter)
          kept == SelectSeq(hits, keep)
          out == Take(kept, n_results)
      IN  [r \in 1..Len(out) |->
              [id |-> metadata[out[r]].id, genre |-> metadata[out[r]].genre,
               distance |-> Dist(index[out[r]], q)]]

\* id_to_idx after the loop of add_songs over `songs`, the first landing at start_idx + 1
RECURSIVE FaissIdMap(_, _, _)
FaissIdMap(map, songs, start_idx) ==
    IF songs = <<>> THEN map
    ELSE FaissIdMap((Head(songs).id :> start_idx + 1) @@ map, Tail(songs), start_idx + 1)

\* FAISSStore._save_index when both writes succeed: faiss.index and metadata.pkl
FaissSaved(idx, meta, map) ==
    [index |-> idx, metadata |-> meta, id_to_idx |-> map,
     has_index |-> TRUE, has_metadata |-> TRUE]

\* A directory in which FAISSStore has written nothing yet
FaissNoFiles ==
    [index |-> <<>>, metadata |-> <<>>, id_to_idx |-> EmptyIdMap,
     has_index |-> FALSE, has_metadata |-> FALSE]

\* How _save_index can end: both files written; faiss.write_index raised
\* (nothing written); the index written and the pickle of the metadata raised.
\* The exception is logged and not raised again.
SaveOutcomes == {"ok", "none", "index_only"}

\* FAISSStore._save_index: the directory afterwards
FaissSaveIndex(outcome, idx, meta, map) ==
    CASE outcome = "ok" -> FaissSaved(idx, meta, map)
      [] outcome = "none" -> disk
      [] outcome = "index_only" -> [disk EXCEPT !.index = idx, !.has_index = TRUE]

FaissAddSongsFirstVector(songs, embeddings) ==
    IF songs = <<>>
    THEN /\ UNCHANGED storeVars
         /\ ret' = [op |-> "add", raised |-> TRUE, songs |-> songs, was_empty |-> FaissCount = 0]
    ELSE /\ index' = Append(index, embeddings[1])
         /\ metadata' = metadata \o songs
         /\ id_to_idx' = FaissIdMap(id_to_idx, songs, Len(metadata))
         /\ disk' = FaissSaved(index', metadata', id_to_idx')
         /\ UNCHANGED collection
         /\ ret' = [op |-> "add", raised |-> FALSE, songs |-> songs, was_empty |-> FaissCount = 0]

\* FAISSStore.add_songs with what can go wrong in it.  dim_ok: the embeddings
\* have the dimension of the index (index.add asserts it before adding);
\* bad_at: the position of a song that is no dict, on which song.get raises
\* (0: none); outcome: how _save_index ends.
FaissAddSongsIO(songs, embeddings, dim_ok, bad_at, outcome) ==
    LET result(raised) == [op |-> "add", raised |-> raised, songs |-> songs,
                           was_empty |-> FaissCount = 0]
    IN  IF songs = <<>> \/ ~dim_ok
        THEN /\ UNCHANGED storeVars
             /\ ret' = result(TRUE)
        ELSE IF bad_at > 0
        THEN \* the vectors are in the index; the loop stops at the bad song
             /\ index' = index \o embeddings
             /\ metadata' = metadata \o Take(songs, bad_at - 1)
             /\ id_to_idx' = FaissIdMap(id_to_idx, Take(songs, bad_at - 1), Len(metadata))
             /\ UNCHANGED <<collection, disk>>
             /\ ret' = result(TRUE)
        ELSE /\ index' = index \o embeddings
             /\ metadata' = metadata \o songs
             /\ id_to_idx' = FaissIdMap(id_to_idx, songs, Len(metadata))
             /\ disk' = FaissSaveIndex(outcome, index', metadata', id_to_idx')
             /\ UNCHANGED collection
             /\ ret' = result(FALSE)

\* FAISSStore.add_songs, well-formed songs and embeddings, the disk writable
FaissAddSongs(songs, embeddings) == FaissAddSongsIO(songs, embeddings, TRUE, 0, "ok")

\* FAISSStore.clear_all: _create_index, then _save_index ending in `outcome`
FaissClearAllIO(outcome) ==
    /\ index' = <<>>
    /\ metadata' = <<>>
    /\ id_to_idx' = EmptyIdMap
    /\ disk' = FaissSaveIndex(outcome, index', metadata', id_to_idx')
    /\ UNCHANGED collection
    /\ ret' = [op |-> "clear"]

\* FAISSStore.clear_all, the disk writable
FaissClearAll == FaissClearAllIO("ok")

\* FAISSStore.__init__ on the directory as it is: _load_index when faiss.index
\* exists (a failed load falls back to _create_index), else _create_index
FaissOpen ==
    /\ IF disk.has_index /\ disk.has_metadata
       THEN /\ index' = disk.index
            /\ metadata' = disk.metadata
            /\ id_to_idx' = disk.id_to_idx
       ELSE /\ index' = <<>>
            /\ metadata' = <<>>
            /\ id_to_idx' = EmptyIdMap
    /\ UNCHANGED <<collection, disk>>

\* FAISSStore.get_all_genres
FaissGenres == {metadata[i].genre : i \in 1..Len(metadata)}

----------------------------------------------------------------------------
(* ChromaStore *)

ChromaCount == Len(collection)

\* ChromaStore.search
ChromaSearch(q, n_results, filter) ==
    IF ChromaCount = 0 THEN <<>>
    ELSE
      LET where == {i \in 1..Len(collection) :
                       filter # NoFilter => collection[i].genre = filter}
          embs == [i \in 1..Len(collection) |-> collection[i].emb]
          out == Take(NearestFirst(embs, where, q), Min(n_results, ChromaCount))
      IN  [r \in 1..Len(out) |->
              [id |-> collection[out[r]].id, genre |-> collection[out[r]].genre,
               distance |-> Dist(collection[out[r]].emb, q)]]

\* The ids of a batch are pairwise different
DistinctIds(songs) == \A i, j \in DOMAIN songs : songs[i].id = songs[j].id => i = j

\* ChromaStore.add_songs with what can go wrong in it.  dim_ok: the embeddings
\* have the dimension of the collection; bad_at: the position of a song that
\* is no dict, on which song['id'] raises while the ids are prepared (0:
\* none).  collection.add refuses a batch that repeats an id, and skips,
\* without an error, the records whose id the collection already holds.
ChromaAddSongsIO(songs, embeddings, dim_ok, bad_at) ==
    LET result(raised) == [op |-> "add", raised |-> raised, songs |-> songs,
                           was_empty |-> ChromaCount = 0]
        held == {collection[i].id : i \in 1..Len(collection)}
        records == [i \in 1..Len(songs) |->
                       [id |-> songs[i].id, genre |-> songs[i].genre, emb |-> embeddings[i]]]
    IN  IF songs = <<>> \/ bad_at > 0 \/ ~dim_ok \/ ~DistinctIds(songs)
        THEN /\ UNCHANGED storeVars
             /\ ret' = result(TRUE)
        ELSE /\ collection' = collection \o SelectSeq(records, LAMBDA r : r.id \notin held)
             /\ disk' = collection'
             /\ UNCHANGED <<index, metadata, id_to_idx>>
             /\ ret' = result(FALSE)

\* ChromaStore.add_songs, well-formed songs and embeddings
ChromaAddSongs(songs, embeddings) == ChromaAddSongsIO(songs, embeddings, TRUE, 0)

\* ChromaStore.clear_all; fault: delete_collection or create_collection raised,
\* which is logged and not raised again
ChromaClearAllIO(fault) ==
    /\ collection' = IF fault THEN collection ELSE <<>>
    /\ disk' = collection'
    /\ UNCHANGED <<index, metadata, id_to_idx>>
    /\ ret' = [op |-> "clear"]

\* ChromaStore.clear_all, no fault
ChromaClearAll == ChromaClearAllIO(FALSE)

\* ChromaStore.__init__: the persistent client's collection "songs"
ChromaOpen ==
    /\ collection' = disk
    /\ UNCHANGED <<index, metadata, id_to_idx, disk>>

\* ChromaStore.get_all_genres
ChromaGenres == {collection[i].genre : i \in 1..Len(collection)}

----------------------------------------------------------------------------
(* The store behind the BaseVectorStore interface *)

StoreCount == IF backend = "faiss" THEN FaissCount ELSE ChromaCount

StoreSearch(q, n_results, filter) ==
    IF backend = "faiss" THEN FaissSearch(q, n_results, filter)
    ELSE ChromaSearch(q, n_results, filter)

\* The ids held by the store, in insertion order
StoreIds ==
    IF backend = "faiss" THEN [i \in 1..Len(metadata) |-> metadata[i].id]
    ELSE [i \in 1..Len(collection) |-> collection[i].id]

AddSongs(songs, embeddings) ==
    /\ IF backend = "faiss" THEN FaissAddSongs(songs, embeddings)
       ELSE ChromaAddSongs(songs, embeddings)
    /\ UNCHANGED <<backend, memVars>>

ClearAll ==
    /\ IF backend = "faiss" THEN FaissClearAll ELSE ChromaClearAll
    /\ UNCHANGED <<backend, memVars>>

Search(q, n_results, filter) ==
    /\ ret' = [op |-> "search", q |-> q, n_results |-> n_results, filter |-> filter,
               results |-> StoreSearch(q, n_results, filter)]
    /\ UNCHANGED <<backend, storeVars, memVars>>

StoreGenreList == IF backend = "faiss" THEN FaissGenres ELSE ChromaGenres

\* What the open store answers: count() and every search of the checked range
Answers ==
    [count |-> StoreCount,
     results |-> [c \in Emb \X (1..MaxK) \X (StoreGenres \cup {NoFilter}) |->
                     StoreSearch(c[1], c[2], c[3])]]

\* add_songs with the failures it can meet
AddSongsIO(songs, embeddings, dim_ok, bad_at, outcome) ==
    /\ IF backend = "faiss" THEN FaissAddSongsIO(songs, embeddings, dim_ok, bad_at, outcome)
       ELSE ChromaAddSongsIO(songs, embeddings, dim_ok, bad_at)
    /\ UNCHANGED <<backend, memVars>>

\* clear_all with the failures it can meet
ClearAllIO(outcome) ==
    /\ IF backend = "faiss" THEN FaissClearAllIO(outcome) ELSE ChromaClearAllIO(outcome # "ok")
    /\ UNCHANGED <<backend, memVars>>

\* The process ends and a new one constructs the store on the same directory.
\* The result keeps which call came before.
Reopen ==
    /\ IF backend = "faiss" THEN FaissOpen ELSE ChromaOpen
    /\ ret' = [op |-> "open", after |-> ret.op]
    /\ UNCHANGED <<backend, memVars>>

----------------------------------------------------------------------------
(* EmotionAnalyzer: the response table.  Valence and energy in hundredths. *)

Emotions == {"sadness", "joy", "anger", "fear", "love", "neutral", "excitement",
             "focus", "sleep", "party", "workout", "chill", "nostalgic",
             "motivated", "stressed", "confident", "relaxed", "bored"}

emotion_to_genres ==
    [e \in Emotions |->
        CASE e = "sadness" -> <<"sad", "chill", "pop">>
          [] e = "joy" -> <<"happy", "pop", "dance", "party">>
          [] e = "anger" -> <<"rock", "workout">>
          [] e = "fear" -> <<"chill", "sad">>
          [] e = "love" -> <<"pop", "happy">>
          [] e = "neutral" -> <<"pop", "happy", "party">>
          [] e = "excitement" -> <<"party", "dance", "happy">>
          [] e = "focus" -> <<"chill", "pop">>
          [] e = "sleep" -> <<"chill", "sad">>
          [] e = "party" -> <<"party", "dance", "happy">>
          [] e = "workout" -> <<"workout", "rock", "party">>
          [] e = "chill" -> <<"chill", "sad", "pop">>
          [] e = "nostalgic" -> <<"sad", "pop", "chill">>
          [] e = "motivated" -> <<"workout", "rock", "party", "happy">>
          [] e = "stressed" -> <<"chill", "sad">>
          [] e = "confident" -> <<"pop", "rock", "party">>
          [] e = "relaxed" -> <<"chill", "pop">>
          [] e = "bored" -> <<"pop", "party", "dance">>]

dimensions_map ==
    [e \in Emotions |->
        CASE e = "sadness" -> [valence |-> 20, energy |-> 30]
          [] e = "joy" -> [valence |-> 90, energy |-> 70]
          [] e = "anger" -> [valence |-> 30, energy |-> 90]
          [] e = "fear" -> [valence |-> 30, energy |-> 40]
          [] e = "love" -> [valence |-> 80, energy |-> 50]
          [] e = "neutral" -> [valence |-> 50, energy |-> 50]
          [] e = "excitement" -> [valence |-> 85, energy |-> 95]
          [] e = "focus" -> [valence |-> 50, energy |-> 40]
          [] e = "sleep" -> [valence |-> 60, energy |-> 15]
          [] e = "party" -> [valence |-> 90, energy |-> 95]
          [] e = "workout" -> [valence |-> 70, energy |-> 95]
          [] e = "chill" -> [valence |-> 60, energy |-> 20]
          [] e = "nostalgic" -> [valence |-> 40, energy |-> 35]
          [] e = "motivated" -> [valence |-> 80, energy |-> 85]
          [] e = "stressed" -> [valence |-> 30, energy |-> 60]
          [] e = "confident" -> [valence |-> 85, energy |-> 75]
          [] e = "relaxed" -> [valence |-> 70, energy |-> 25]
          [] e = "bored" -> [valence |-> 40, energy |-> 30]]

BuildEmotionResponsePercent(emotion, confidence) ==
    LET dimensions == IF emotion \in Emotions THEN dimensions_map[emotion]
                      ELSE [valence |-> 50, energy |-> 50]
    IN  [dominant_emotion |-> emotion,
         dominant_score |-> confidence * 100,
         suggested_genres |-> IF emotion \in Emotions THEN emotion_to_genres[emotion]
                              ELSE <<"pop">>,
         dimensions |-> dimensions]

\* EmotionAnalyzer._build_emotion_response
BuildEmotionResponse(emotion, confidence) ==
    LET dimensions == IF emotion \in Emotions THEN dimensions_map[emotion]
                      ELSE [valence |-> 50, energy |-> 50]
    IN  [dominant_emotion |-> emotion,
         dominant_score |-> confidence,
         suggested_genres |-> IF emotion \in Emotions THEN emotion_to_genres[emotion]
                              ELSE <<"pop">>,
         dimensions |-> dimensions]

\* EmotionAnalyzer.analyze: the guard for an empty text, then the emotion the
\* models arrive at (`emotion`, with the sentiment's confidence)
Analyze(text, emotion, confidence) ==
    IF text = "" THEN BuildEmotionResponse("neutral", 50)
    ELSE BuildEmotionResponse(emotion, confidence)

----------------------------------------------------------------------------
(* EmotionAnalyzer.analyze, step by step.  A text is a sequence of characters; *)
(* what the sentiment model, the regular expressions, the embedder and the    *)
(* prototype comparison make of it are inputs.  Scores and similarities are   *)
(* in hundredths.                                                             *)

MaxText == 2

Chars == {" ", "a"}

TEXT_WINDOW == 512

RECURSIVE LStrip(_)
LStrip(text) ==
    IF text # <<>> /\ Head(text) = " " THEN LStrip(Tail(text)) ELSE text

RECURSIVE RStrip(_)
RStrip(text) ==
    IF text # <<>> /\ text[Len(text)] = " " THEN RStrip(SubSeq(text, 1, Len(text) - 1))
    ELSE text

\* str.strip
Strip(text) == RStrip(LStrip(text))

IsEmptyText(text) == text = <<>>

\* analyze, line 250: not text or not text.strip()
IsBlankText(text) == text = <<>> \/ Strip(text) = <<>>

\* the labels a sentiment model can give, lower-cased
SentimentLabels == {"positive", "negative", "neutral", "pos", "neg", "5 stars"}

\* the keys of activity_prototypes
ActivityTypes ==
    {"high_energy", "low_energy", "happy", "romantic", "sad", "angry", "sleep", "party",
     "workout", "nostalgic", "motivated", "stressed", "confident", "relaxed", "bored"}

\* the step of analyze that raises, if any
AnalyzeFaults == {"none", "sentiment", "extract", "encode", "compare"}

\* EmotionAnalyzer._sentiment_to_emotion
SentimentToEmotion(sentiment) ==
    CASE sentiment \in {"positive", "pos"} -> "joy"
      [] sentiment \in {"negative", "neg"} -> "sadness"
      [] OTHER -> "neutral"

\* EmotionAnalyzer._activity_type_to_emotion
ActivityTypeToEmotion(activity_type, sentiment) ==
    LET strong_mapping ==
            [happy |-> "joy", sad |-> "sadness", angry |-> "anger", romantic |-> "love",
             sleep |-> "sleep", workout |-> "workout", party |-> "party",
             nostalgic |-> "nostalgic", motivated |-> "motivated", stressed |-> "stressed",
             confident |-> "confident", relaxed |-> "relaxed", bored |-> "bored"]
        weak_mapping ==
            [high_energy |-> [positive |-> "excitement", negative |-> "stressed",
                              neutral |-> "excitement"],
             low_energy |-> [positive |-> "relaxed", negative |-> "sadness",
                             neutral |-> "focus"]]
        sentiment_normalized ==
            CASE sentiment = "pos" -> "positive"
              [] sentiment = "neg" -> "negative"
              [] OTHER -> sentiment
    IN  IF activity_type \in DOMAIN strong_mapping THEN strong_mapping[activity_type]
        ELSE IF activity_type \in DOMAIN weak_mapping
        THEN (IF sentiment_normalized \in DOMAIN weak_mapping[activity_type]
              THEN weak_mapping[activity_type][sentiment_normalized]
              ELSE "neutral")
        ELSE SentimentToEmotion(sentiment)

\* EmotionAnalyzer._analyze_semantic_context: the emotion it returns
AnalyzeSemanticContext(sentiment, confidence, most_similar, max_similarity, fault) ==
    IF fault \in {"encode", "compare"} THEN SentimentToEmotion(sentiment)
    ELSE LET base_threshold == 35
             adjusted_threshold == base_threshold - (IF confidence > 80 THEN 5 ELSE 0)
         IN  IF max_similarity > adjusted_threshold
             THEN ActivityTypeToEmotion(most_similar, sentiment)
             ELSE SentimentToEmotion(sentiment)

\* str.lower, on the letters the texts are made of
Lower(text) ==
    [i \in DOMAIN text |-> CASE text[i] = "P" -> "p" [] text[i] = "A" -> "a" [] OTHER -> text[i]]

\* \s of the regular expressions
IsSpace(c) == c \in {" ", "\n", "\t"}

\* \w of the regular expressions: what is neither white space nor punctuation
IsWordChar(c) == ~IsSpace(c) /\ c \notin {",", ".", "!", "?"}

IsNotSpace(c) == ~IsSpace(c)

\* The last position of the run of characters of one class that starts at i
RunEnd(text, i, InClass(_)) ==
    LET ends == {j \in i..Len(text) : j = Len(text) \/ ~InClass(text[j + 1])}
    IN  CHOOSE j \in ends : \A k \in ends : j <= k

\* The positions at which a word of the text starts
WordStarts(text) ==
    {i \in DOMAIN text : IsNotSpace(text[i]) /\ (i = 1 \/ IsSpace(text[i - 1]))}

\* The words that start at the positions `starts`, in order
WordsAt(text, starts) ==
    [k \in 1..Cardinality(starts) |->
        CHOOSE w \in {SubSeq(text, i, RunEnd(text, i, IsNotSpace)) :
                         i \in {j \in starts : Cardinality({h \in starts : h < j}) = k - 1}} :
           TRUE]

\* str.split: the words of a text, in order
Split(text) ==
    CHOOSE words \in {WordsAt(text, starts) : starts \in {WordStarts(text)}} : TRUE

\* ' '.join
RECURSIVE JoinWords(_)
JoinWords(words) ==
    IF words = <<>> THEN <<>>
    ELSE IF Len(words) = 1 THEN words[1]
    ELSE words[1] \o <<" ">> \o JoinWords(Tail(words))

\* _extract_activity_context, lines 312-321: the patterns, each a sequence of
\* alternatives followed by \s+, all of them ending in (\w+(?:\s+\w+){0,2})
ActivityPatterns ==
    <<<<{<<"p", "a", "r", "a">>}>>,
      <<{<<"m", "i", "e", "n", "t", "r", "a", "s">>}>>,
      <<{<<"c", "u", "a", "n", "d", "o">>}>>,
      <<{<<"a", "l">>}>>,
      <<{<<"q", "u", "i", "e", "r", "o">>}>>,
      <<{<<"n", "e", "c", "e", "s", "i", "t", "o">>}>>,
      <<{<<"v", "o", "y", " ", "a">>}>>,
      <<{<<"m", "ú", "s", "i", "c", "a">>, <<"c", "a", "n", "c", "i", "o", "n", "e", "s">>}, {<<"p", "a", "r", "a">>, <<"d", "e">>}>>>>

\* _extract_activity_context, lines 324-328
IgnoreWords ==
    {<<"e", "l">>, <<"l", "a">>, <<"l", "o", "s">>, <<"l", "a", "s">>,
     <<"u", "n">>, <<"u", "n", "a">>, <<"u", "n", "o", "s">>, <<"u", "n", "a", "s">>,
     <<"m", "i">>, <<"t", "u">>, <<"s", "u">>, <<"e", "s", "t", "e">>,
     <<"e", "s", "t", "a">>, <<"e", "s", "e">>, <<"e", "s", "a">>, <<"m", "i", "s">>,
     <<"t", "u", "s">>, <<"s", "u", "s">>, <<"m", "í">>, <<"t", "i">>,
     <<"m", "ú", "s", "i", "c", "a">>, <<"c", "a", "n", "c", "i", "o", "n", "e", "s">>}

StartsAt(text, i, word) ==
    i + Len(word) - 1 <= Len(text) /\ SubSeq(text, i, i + Len(word) - 1) = word

\* One of the alternatives and \s+ at position i: the position right after
\* the white space, 0 when they do not match there
AfterKeyword(text, i, alternatives) ==
    IF \E w \in alternatives :
          StartsAt(text, i, w) /\ i + Len(w) <= Len(text) /\ IsSpace(text[i + Len(w)])
    THEN LET w == CHOOSE w \in alternatives :
                      StartsAt(text, i, w) /\ i + Len(w) <= Len(text)
                      /\ IsSpace(text[i + Len(w)])
         IN  RunEnd(text, i + Len(w), IsSpace) + 1
    ELSE 0

RECURSIVE AfterKeywords(_, _, _)
AfterKeywords(text, i, pattern) ==
    IF pattern = <<>> THEN i
    ELSE LET g == AfterKeyword(text, i, Head(pattern))
         IN  IF g = 0 THEN 0 ELSE AfterKeywords(text, g, Tail(pattern))

\* (?:\s+\w+)?, greedy, after a word that ends at e: where the group ends
ExtendGroup(text, e) ==
    IF e + 1 <= Len(text) /\ IsSpace(text[e + 1])
    THEN LET s == RunEnd(text, e + 1, IsSpace)
         IN  IF s + 1 <= Len(text) /\ IsWordChar(text[s + 1])
             THEN RunEnd(text, s + 1, IsWordChar)
             ELSE e
    ELSE e

NoMatch == [found |-> FALSE, group |-> <<>>]

\* The group that starts at g: a word and up to two more
GroupAt(text, g) ==
    SubSeq(text, g, ExtendGroup(text, ExtendGroup(text, RunEnd(text, g, IsWordChar))))

\* The positions at which group 1 of a match of the pattern can start, each
\* taken from a position of the text at which the keywords match
GroupStarts(pattern, text) ==
    {g \in {AfterKeywords(text, i, pattern) : i \in DOMAIN text} :
        g # 0 /\ g <= Len(text) /\ IsWordChar(text[g])}

\* re.search(pattern, text): group 1 of the leftmost match
ReSearch(pattern, text) ==
    CHOOSE match \in {IF starts = {} THEN NoMatch
                      ELSE [found |-> TRUE,
                            group |-> CHOOSE group \in {GroupAt(text, g) :
                                         g \in {h \in starts : \A j \in starts : h <= j}} : TRUE] :
                         starts \in {GroupStarts(pattern, text)}} : TRUE

NoContext == [found |-> FALSE, context |-> <<>>]

NotIgnored(w) == w \notin IgnoreWords

\* _extract_activity_context, lines 342-352: the words around the first
\* occurrence of the first word of the activity
ContextAround(filtered_words, words) ==
    IF filtered_words = <<>> THEN NoContext
    ELSE IF filtered_words[1] \in Range(words)
    THEN [found |-> TRUE,
          context |-> CHOOSE c \in {JoinWords(SubSeq(words, IF idx - 2 < 1 THEN 1 ELSE idx - 2,
                                                      Min(Len(words), idx + 3))) :
                                      idx \in {i \in DOMAIN words :
                                                  /\ words[i] = filtered_words[1]
                                                  /\ \A j \in 1..(i - 1) :
                                                        words[j] # filtered_words[1]}} : TRUE]
    ELSE NoContext

\* _extract_activity_context, lines 330-352: what one pattern gives
ContextOfPattern(pattern, text_lower) ==
    CHOOSE c \in {IF ~match.found THEN NoContext
                  ELSE CHOOSE d \in {ContextAround(filtered_words, words) :
                                       filtered_words \in {SelectSeq(Split(match.group), NotIgnored)},
                                       words \in {Split(text_lower)}} : TRUE :
                     match \in {ReSearch(pattern, text_lower)}} : TRUE

RECURSIVE FirstContext(_, _)
FirstContext(patterns, text_lower) ==
    IF patterns = <<>> THEN NoContext
    ELSE LET c == ContextOfPattern(Head(patterns), text_lower)
         IN  IF c.found THEN c ELSE FirstContext(Tail(patterns), text_lower)

\* EmotionAnalyzer._extract_activity_context
ExtractActivityContext(text) ==
    CHOOSE c \in {FirstContext(ActivityPatterns, text_lower) : text_lower \in {Lower(text)}} : TRUE

\* analyze, lines 254-285: the text handed to _analyze_semantic_context
SemanticContext(text) ==
    CHOOSE context \in {IF activity_context.found THEN activity_context.context ELSE text_clean :
                           text_clean \in {Take(Strip(text), TEXT_WINDOW)},
                           activity_context \in {ExtractActivityContext(Take(Strip(text), TEXT_WINDOW))}} :
       TRUE

\* The model calls analyze makes, in order
AnalyzeCalls(text, fault) ==
    IF IsBlankText(text) THEN <<>>
    ELSE IF fault \in {"sentiment", "extract"} THEN <<"sentiment">>
    ELSE <<"sentiment", "embedder">>

\* EmotionAnalyzer.analyze: the response for a text and the models' outcomes
AnalyzeResponse(text, sentiment, confidence, most_similar, max_similarity, fault) ==
    IF IsBlankText(text) THEN BuildEmotionResponse("neutral", 50)
    ELSE IF fault \in {"sentiment", "extract"} THEN BuildEmotionResponse("neutral", 50)
    ELSE BuildEmotionResponse(
             AnalyzeSemanticContext(sentiment, confidence, most_similar, max_similarity, fault),
             confidence)

\* What one call of analyze leaves to look at: its input, what the models
\* answered, the calls made and the response
AnalyzeResult(text, sentiment, confidence, most_similar, max_similarity, fault) ==
    [op |-> "analyze", raised |-> FALSE,
     text |-> text, text_clean |-> Take(Strip(text), TEXT_WINDOW),
     sentiment |-> sentiment, confidence |-> confidence,
     most_similar |-> most_similar, max_similarity |-> max_similarity,
     fault |-> fault,
     calls |-> AnalyzeCalls(text, fault),
     response |-> AnalyzeResponse(text, sentiment, confidence, most_similar,
                                  max_similarity, fault)]

\* One call of analyze
AnalyzeText(text, sentiment, confidence, most_similar, max_similarity, fault) ==
    /\ ret' = AnalyzeResult(text, sentiment, confidence, most_similar, max_similarity, fault)
    /\ UNCHANGED <<backend, storeVars, memVars>>

\* One call of analyze, keeping also the text it handed to
\* _analyze_semantic_context when it got that far
AnalyzeTextTraced(text, sentiment, confidence, most_similar, max_similarity, fault) ==
    /\ ret' = [context |-> IF "embedder" \in Range(AnalyzeCalls(text, fault))
                           THEN SemanticContext(text) ELSE <<>>]
               @@ AnalyzeResult(text, sentiment, confidence, most_similar, max_similarity, fault)
    /\ UNCHANGED <<backend, storeVars, memVars>>

----------------------------------------------------------------------------
(* DataEncryption and SecureStorage (utils/security.py).  A Python value is a *)
(* tagged record: None, an int, a str (a sequence of characters), a list, or  *)
(* a dict (its members in insertion order, the keys strings).  A bytes object *)
(* is a sequence of integers 0..255.  json.dumps, json.loads and UTF-8 are    *)
(* followed character by character.  Fernet and base64 are symbolic: a token  *)
(* names the key, the IV and the data it was made from, its HMAC can only be  *)
(* rebuilt with the key, and base64 text is a wrapper around what it encodes. *)

MaxItems == 2   \* the most members of a dict and the most items of a list
MaxStr == 2     \* the most characters of a string handed to save_secure

Quote == "\""
Backslash == "\\"
Newline == "\n"
EAcute == "u00e9"   \* the character U+00E9, two bytes in UTF-8
Digits == <<"0", "1", "2", "3", "4", "5", "6", "7", "8", "9">>
NullChars == <<"n", "u", "l", "l">>

PyNone == [t |-> "none"]
PyInt(n) == [t |-> "int", v |-> n]
PyStr(s) == [t |-> "str", v |-> s]
PyList(items) == [t |-> "list", v |-> items]
PyDict(members) == [t |-> "dict", v |-> members]

\* json.dumps of an int
RECURSIVE IntToChars(_)
IntToChars(n) ==
    IF n < 10 THEN <<Digits[n + 1]>>
    ELSE IntToChars(n \div 10) \o <<Digits[(n % 10) + 1]>>

EscapeCharRaw(c) == <<c>>

\* json.encoder ESCAPE_DCT, ensure_ascii=False: the quote, the backslash and the
\* control characters are escaped, everything else is copied
EscapeChar(c) ==
    IF c \in {Quote, Backslash} THEN <<Backslash, c>>
    ELSE IF c = Newline THEN <<Backslash, "n">>
    ELSE <<c>>

\* json.dumps of the characters of a str
RECURSIVE EscapeChars(_)
EscapeChars(s) ==
    IF s = <<>> THEN <<>> ELSE EscapeChar(Head(s)) \o EscapeChars(Tail(s))

JsonString(s) == <<Quote>> \o EscapeChars(s) \o <<Quote>>

RECURSIVE JsonDumps(_)
RECURSIVE DumpItems(_)
RECURSIVE DumpMembers(_)

\* json.dumps(obj, ensure_ascii=False), separators ", " and ": "
JsonDumps(obj) ==
    CASE obj.t = "none" -> NullChars
      [] obj.t = "int" -> IntToChars(obj.v)
      [] obj.t = "str" -> JsonString(obj.v)
      [] obj.t = "list" -> <<"[">> \o DumpItems(obj.v) \o <<"]">>
      [] obj.t = "dict" -> <<"{">> \o DumpMembers(obj.v) \o <<"}">>

DumpItems(items) ==
    IF items = <<>> THEN <<>>
    ELSE JsonDumps(Head(items))
         \o (IF Tail(items) = <<>> THEN <<>> ELSE <<",", " ">> \o DumpItems(Tail(items)))

DumpMembers(members) ==
    IF members = <<>> THEN <<>>
    ELSE JsonString(Head(members).key) \o <<":", " ">> \o JsonDumps(Head(members).value)
         \o (IF Tail(members) = <<>> THEN <<>> ELSE <<",", " ">> \o DumpMembers(Tail(members)))

ParseFail == [ok |-> FALSE]

RECURSIVE SkipWs(_)
SkipWs(s) == IF s # <<>> /\ Head(s) \in {" ", Newline} THEN SkipWs(Tail(s)) ELSE s

IsDigit(c) == \E d \in DOMAIN Digits : Digits[d] = c

DigitValue(c) == (CHOOSE d \in DOMAIN Digits : Digits[d] = c) - 1

RECURSIVE ScanDigits(_, _)
ScanDigits(s, acc) ==
    IF s # <<>> /\ IsDigit(Head(s))
    THEN ScanDigits(Tail(s), acc * 10 + DigitValue(Head(s)))
    ELSE [ok |-> TRUE, value |-> PyInt(acc), rest |-> s]

\* json.scanner NUMBER_RE, the integer part: 0, or a nonzero digit and more digits
ScanInt(s) ==
    IF Head(s) = "0" THEN [ok |-> TRUE, value |-> PyInt(0), rest |-> Tail(s)]
    ELSE ScanDigits(Tail(s), DigitValue(Head(s)))

\* json.decoder.scanstring, after the opening quote; \u needs four hex digits
RECURSIVE ScanString(_, _)
ScanString(s, acc) ==
    IF s = <<>> THEN ParseFail
    ELSE IF Head(s) = Quote THEN [ok |-> TRUE, value |-> acc, rest |-> Tail(s)]
    ELSE IF Head(s) = Newline THEN ParseFail
    ELSE IF Head(s) = Backslash
         THEN IF Len(s) >= 2 /\ s[2] \in {Quote, Backslash}
              THEN ScanString(Drop(s, 2), Append(acc, s[2]))
              ELSE IF Len(s) >= 2 /\ s[2] = "n"
                   THEN ScanString(Drop(s, 2), Append(acc, Newline))
                   ELSE ParseFail
    ELSE ScanString(Tail(s), Append(acc, Head(s)))

\* dict[key] = value
SetMember(members, key, value) ==
    IF \E i \in DOMAIN members : members[i].key = key
    THEN [i \in DOMAIN members |->
             IF members[i].key = key THEN [key |-> key, value |-> value] ELSE members[i]]
    ELSE Append(members, [key |-> key, value |-> value])

RECURSIVE ParseValue(_)
RECURSIVE ParseItems(_, _)
RECURSIVE ParseMembers(_, _)

\* json.scanner.scan_once after the leading whitespace is skipped
ParseValue(text) ==
    LET s == SkipWs(text)
    IN  IF s = <<>> THEN ParseFail
        ELSE IF Head(s) = Quote
             THEN LET r == ScanString(Tail(s), <<>>)
                  IN  IF r.ok THEN [ok |-> TRUE, value |-> PyStr(r.value), rest |-> r.rest]
                      ELSE ParseFail
        ELSE IF IsDigit(Head(s)) THEN ScanInt(s)
        ELSE IF Take(s, 4) = NullChars
             THEN [ok |-> TRUE, value |-> PyNone, rest |-> Drop(s, 4)]
        ELSE IF Head(s) = "["
             THEN LET t == SkipWs(Tail(s))
                  IN  IF t # <<>> /\ Head(t) = "]"
                      THEN [ok |-> TRUE, value |-> PyList(<<>>), rest |-> Tail(t)]
                      ELSE ParseItems(t, <<>>)
        ELSE IF Head(s) = "{"
             THEN LET t == SkipWs(Tail(s))
                  IN  IF t # <<>> /\ Head(t) = "}"
                      THEN [ok |-> TRUE, value |-> PyDict(<<>>), rest |-> Tail(t)]
                      ELSE ParseMembers(t, <<>>)
        ELSE ParseFail

\* json.decoder.JSONArray
ParseItems(text, acc) ==
    LET r == ParseValue(text)
        t == SkipWs(r.rest)
    IN  IF ~r.ok THEN ParseFail
        ELSE IF t = <<>> THEN ParseFail
        ELSE IF Head(t) = "]"
             THEN [ok |-> TRUE, value |-> PyList(Append(acc, r.value)), rest |-> Tail(t)]
        ELSE IF Head(t) = "," THEN ParseItems(Tail(t), Append(acc, r.value))
        ELSE ParseFail

\* json.decoder.JSONObject
ParseMembers(text, acc) ==
    LET s == SkipWs(text)
        k == ScanString(Tail(s), <<>>)
        c == SkipWs(k.rest)
        r == ParseValue(Tail(c))
        t == SkipWs(r.rest)
        members == SetMember(acc, k.value, r.value)
    IN  IF s = <<>> \/ Head(s) # Quote THEN ParseFail
        ELSE IF ~k.ok THEN ParseFail
        ELSE IF c = <<>> \/ Head(c) # ":" THEN ParseFail
        ELSE IF ~r.ok THEN ParseFail
        ELSE IF t = <<>> THEN ParseFail
        ELSE IF Head(t) = "}"
             THEN [ok |-> TRUE, value |-> PyDict(members), rest |-> Tail(t)]
        ELSE IF Head(t) = "," THEN ParseMembers(Tail(t), members)
        ELSE ParseFail

\* json.loads: one value, then nothing but whitespace
JsonLoads(text) ==
    LET r == ParseValue(text)
    IN  IF r.ok /\ SkipWs(r.rest) = <<>> THEN [ok |-> TRUE, value |-> r.value]
        ELSE [ok |-> FALSE, error |-> "JSONDecodeError"]

\* The characters of the model that are ASCII, with their code points
AsciiChars == <<[c |-> Newline, n |-> 10], [c |-> " ", n |-> 32], [c |-> Quote, n |-> 34],
                [c |-> ",", n |-> 44], [c |-> "0", n |-> 48], [c |-> "1", n |-> 49],
                [c |-> "2", n |-> 50], [c |-> "3", n |-> 51], [c |-> "4", n |-> 52],
                [c |-> "5", n |-> 53], [c |-> "6", n |-> 54], [c |-> "7", n |-> 55],
                [c |-> "8", n |-> 56], [c |-> "9", n |-> 57], [c |-> ":", n |-> 58],
                [c |-> "[", n |-> 91], [c |-> Backslash, n |-> 92], [c |-> "]", n |-> 93],
                [c |-> "a", n |-> 97], [c |-> "l", n |-> 108], [c |-> "n", n |-> 110],
                [c |-> "u", n |-> 117], [c |-> "{", n |-> 123], [c |-> "}", n |-> 125]>>

\* str.encode() of one character: UTF-8
EncodeChar(c) ==
    IF c = EAcute THEN <<195, 169>>
    ELSE <<AsciiChars[CHOOSE i \in DOMAIN AsciiChars : AsciiChars[i].c = c].n>>

\* str.encode()
RECURSIVE StrEncode(_)
StrEncode(s) == IF s = <<>> THEN <<>> ELSE EncodeChar(Head(s)) \o StrEncode(Tail(s))

\* bytes.decode(): UTF-8, strict
RECURSIVE BytesDecode(_, _)
BytesDecode(b, acc) ==
    IF b = <<>> THEN [ok |-> TRUE, value |-> acc]
    ELSE IF \E i \in DOMAIN AsciiChars : AsciiChars[i].n = Head(b)
         THEN BytesDecode(Tail(b),
                  Append(acc, AsciiChars[CHOOSE i \in DOMAIN AsciiChars : AsciiChars[i].n = Head(b)].c))
    ELSE IF Len(b) >= 2 /\ Head(b) = 195 /\ b[2] = 169
         THEN BytesDecode(Drop(b, 2), Append(acc, EAcute))
    ELSE [ok |-> FALSE, error |-> "UnicodeDecodeError"]

MasterKeys == {"default_master_key_change_in_production", "another_master_key"}
DefaultMasterKey == "default_master_key_change_in_production"
IVs == {1, 2}

\* DataEncryption._get_fernet: the key PBKDF2 derives from the master password
GetFernet(master_password) ==
    [kdf |-> "PBKDF2HMAC-SHA256", salt |-> "rhythmai_salt_v1", password |-> master_password]

\* Fernet.encrypt: AES-CBC under the key and a fresh IV, then an HMAC over both
FernetEncrypt(key, iv, data) ==
    LET ciphertext == [aes |-> key, iv |-> iv, data |-> data]
    IN  [iv |-> iv, ciphertext |-> ciphertext,
         hmac |-> [key |-> key, iv |-> iv, ciphertext |-> ciphertext]]

\* Fernet.decrypt: the HMAC is verified under the key before anything is decrypted
FernetDecrypt(key, token) ==
    IF /\ DOMAIN token = {"iv", "ciphertext", "hmac"}
       /\ token.hmac = [key |-> key, iv |-> token.iv, ciphertext |-> token.ciphertext]
    THEN [ok |-> TRUE, value |-> token.ciphertext.data]
    ELSE [ok |-> FALSE, error |-> "InvalidToken"]

\* base64.urlsafe_b64encode(...).decode(): a str that is the base64 of `encrypted`
B64Encode(encrypted) == [t |-> "str", b64 |-> encrypted]

Base64Alphabet == {"0", "1", "2", "3", "4", "5", "6", "7", "8", "9", "a", "l", "n", "u"}

\* base64.urlsafe_b64decode(text.encode()): characters outside the alphabet are
\* discarded, and what is left must come in groups of four
B64Decode(text) ==
    IF "b64" \in DOMAIN text THEN [ok |-> TRUE, value |-> text.b64]
    ELSE LET n == Len(SelectSeq(text.v, LAMBDA c : c \in Base64Alphabet))
         IN  IF n % 4 = 0 THEN [ok |-> TRUE, value |-> [raw |-> 3 * (n \div 4)]]
             ELSE [ok |-> FALSE, error |-> "binascii.Error"]

Raise(error, message) == [ok |-> FALSE, error |-> error, message |-> message]

\* DataEncryption.encrypt_string
EncryptString(master_password, iv, plaintext) ==
    IF plaintext.t # "str" THEN Raise("ValueError", "Plaintext must be a string")
    ELSE [ok |-> TRUE,
          value |-> B64Encode(FernetEncrypt(GetFernet(master_password), iv,
                                            StrEncode(plaintext.v)))]

DecryptReraise(cause) == Raise(cause.error, "")

\* decrypt_string, lines 131-133: whatever was raised inside the try
DecryptRaise(cause) ==
    Raise("ValueError", "Failed to decrypt data - invalid key or corrupted data")

\* DataEncryption.decrypt_string
DecryptString(master_password, encrypted_text) ==
    IF encrypted_text.t # "str" THEN Raise("ValueError", "Encrypted text must be a string")
    ELSE LET encrypted == B64Decode(encrypted_text)
             decrypted == FernetDecrypt(GetFernet(master_password), encrypted.value)
             decoded == BytesDecode(decrypted.value, <<>>)
         IN  IF ~encrypted.ok THEN DecryptRaise(encrypted)
             ELSE IF ~decrypted.ok THEN DecryptRaise(decrypted)
             ELSE IF ~decoded.ok THEN DecryptRaise(decoded)
             ELSE [ok |-> TRUE, value |-> PyStr(decoded.value)]

\* DataEncryption.encrypt_dict
EncryptDict(master_password, iv, data_dict) ==
    IF data_dict.t # "dict" THEN Raise("ValueError", "Data must be a dictionary")
    ELSE EncryptString(master_password, iv, PyStr(JsonDumps(data_dict)))

\* DataEncryption.decrypt_dict: what decrypt_string or json.loads raises is re-raised
DecryptDict(master_password, encrypted_text) ==
    LET json_str == DecryptString(master_password, encrypted_text)
        loaded == JsonLoads(json_str.value.v)
    IN  IF ~json_str.ok THEN json_str
        ELSE IF ~loaded.ok THEN Raise(loaded.error, "")
        ELSE loaded

\* An empty secure directory
NoSecureFiles == [k \in {} |-> PyNone]

SecureKeys == {"token", "settings"}

\* SecureStorage.save_secure, with SecureStorage() under the default master key
SaveSecure(key, data, iv) ==
    LET encrypted == IF data.t = "dict" THEN EncryptDict(DefaultMasterKey, iv, data)
                     ELSE EncryptString(DefaultMasterKey, iv, PyStr(data.v))
    IN  /\ secure_files' = [k \in DOMAIN secure_files \cup {key} |->
                               IF k = key THEN encrypted.value ELSE secure_files[k]]
        /\ ret' = [op |-> "save_secure", raised |-> FALSE, key |-> key, data |-> data]
        /\ UNCHANGED <<backend, storeVars, history_file, profile, profile_file, clock, recorded>>

\* SecureStorage.load_secure: what it returns when the directory holds `files`
LoadSecureFrom(files, key) ==
    IF key \notin DOMAIN files THEN [ok |-> TRUE, value |-> PyNone]
    ELSE LET as_dict == DecryptDict(DefaultMasterKey, files[key])
         IN  IF as_dict.ok THEN as_dict
             ELSE DecryptString(DefaultMasterKey, files[key])

LoadSecure(key) == LoadSecureFrom(secure_files, key)

\* A call of SecureStorage.load_secure
LoadSecureCall(key) ==
    /\ ret' = [op |-> "load_secure", raised |-> ~LoadSecure(key).ok, key |-> key,
               result |-> LoadSecure(key)]
    /\ UNCHANGED <<backend, storeVars, memVars>>

\* SecureStorage.delete_secure
DeleteSecure(key) ==
    /\ secure_files' = [k \in DOMAIN secure_files \ {key} |-> secure_files[k]]
    /\ ret' = [op |-> "delete_secure", raised |-> FALSE, key |-> key]
    /\ UNCHANGED <<backend, storeVars, history_file, profile, profile_file, clock, recorded>>

\* encrypt_dict, then decrypt_dict of what it returned, on one DataEncryption
EncryptDecryptDict(master_password, iv, data_dict) ==
    LET encrypted == EncryptDict(master_password, iv, data_dict)
    IN  /\ ret' = [op |-> "decrypt_dict", raised |-> FALSE, data_dict |-> data_dict,
                   encrypted |-> encrypted.value,
                   result |-> DecryptDict(master_password, encrypted.value)]
        /\ UNCHANGED <<backend, storeVars, memVars>>

\* What becomes of a ciphertext on its way back to decrypt_string
Damages == {"none", "ciphertext", "iv", "hmac", "truncated", "not_a_token"}

Damaged(encrypted_text, damage) ==
    LET token == encrypted_text.b64
    IN  CASE damage = "none" -> encrypted_text
          [] damage = "ciphertext" ->
                B64Encode([token EXCEPT !.ciphertext.data = <<0>> \o @])
          [] damage = "iv" -> B64Encode([token EXCEPT !.iv = @ + 1])
          [] damage = "hmac" -> B64Encode([token EXCEPT !.hmac.iv = @ + 1])
          [] damage = "truncated" -> B64Encode([iv |-> token.iv, ciphertext |-> token.ciphertext])
          [] damage = "not_a_token" -> B64Encode([raw |-> 3])

\* decrypt_string of a ciphertext made by encrypt_string under `written_with`
\* and damaged on the way, or of a text that never was a ciphertext
DecryptCiphertext(master_password, written_with, iv, plaintext, damage) ==
    LET encrypted_text == Damaged(EncryptString(written_with, iv, plaintext).value, damage)
    IN  /\ ret' = [op |-> "decrypt_string", raised |-> FALSE,
                   master_password |-> master_password, written_with |-> written_with,
                   plaintext |-> plaintext, damage |-> damage, malformed |-> FALSE,
                   encrypted_text |-> encrypted_text,
                   result |-> DecryptString(master_password, encrypted_text)]
        /\ UNCHANGED <<backend, storeVars, memVars>>

DecryptMalformed(master_password, encrypted_text) ==
    /\ ret' = [op |-> "decrypt_string", raised |-> FALSE,
               master_password |-> master_password, written_with |-> None,
               plaintext |-> None, damage |-> "none", malformed |-> TRUE,
               encrypted_text |-> encrypted_text,
               result |-> DecryptString(master_password, encrypted_text)]
    /\ UNCHANGED <<backend, storeVars, memVars>>

----------------------------------------------------------------------------
(* ConversationMemory, UserProfile, ContextManager *)

MAX_CONVERSATION_HISTORY == 2   \* Config.MAX_CONVERSATION_HISTORY (50 by default)
MEMORY_WINDOW == 10
EMOTION_HISTORY_N == 10

NoFile == [fmt |-> "none", history |-> <<>>]

\* What a memory file can hold: nothing ("none"), the encrypted form of the
\* current master secret ("enc"), legacy plaintext JSON ("plain"), a ciphertext
\* of another master secret ("foreign"), or the empty or partial text that an
\* interrupted open(path, 'w') / write leaves ("torn")
FileFormats == {"none", "enc", "plain", "foreign", "torn"}

\* _load_full_history / _load_profile: decrypt_dict succeeds, or json.loads does
Readable(file) == file.fmt \in {"enc", "plain"}

\* ConversationMemory._load_full_history: the list it returns
LoadFullHistory == IF Readable(history_file) THEN history_file.history ELSE <<>>

MigratedHistoryKept == history_file

\* ConversationMemory._load_full_history: the file it leaves behind; a legacy
\* file is rewritten as encrypt_dict({'history': history})
MigratedHistory ==
    IF history_file.fmt = "plain" THEN [fmt |-> "enc", history |-> history_file.history]
    ELSE history_file

\* ConversationMemory.get_recent_interactions
GetRecentInteractions(n) == LastN(LoadFullHistory, n)

SaveInteractionUncapped(interaction) ==
    [fmt |-> "enc", history |-> LoadFullHistory \o <<interaction>>]

SaveInteractionDeferred(interaction) == history_file

\* ConversationMemory._save_interaction: the file it writes
SaveInteraction(interaction) ==
    LET history == LoadFullHistory \o <<interaction>>
    IN  [fmt |-> "enc",
         history |-> IF Len(history) > MAX_CONVERSATION_HISTORY
                     THEN LastN(history, MAX_CONVERSATION_HISTORY)
                     ELSE history]

\* UserProfile._create_default_profile (the statistics)
DefaultProfile ==
    [total_sessions |-> 0, most_common_emotion |-> None, last_session |-> NoTime,
     preferences |-> [favorite_genres |-> <<>>, language |-> "es"],
     listening_history |-> <<>>]

UpdateStatisticsMode(emotion) ==
    /\ profile' = [profile EXCEPT !.total_sessions = @ + 1,
                                  !.most_common_emotion = IF @ = None THEN emotion ELSE @,
                                  !.last_session = clock]
    /\ profile_file' = [fmt |-> "enc", profile |-> profile']

\* UserProfile.update_statistics
UpdateStatistics(emotion) ==
    /\ profile' = [profile EXCEPT !.total_sessions = @ + 1,
                                  !.most_common_emotion = IF emotion # None THEN emotion ELSE @,
                                  !.last_session = clock]
    /\ profile_file' = [fmt |-> "enc", profile |-> profile']

\* ContextManager.add_interaction; `fault` is an exception raised on the way to
\* the history file (encrypt_dict or open failing), before anything is written
ContextAddInteraction(user_text, emotion, genre, emotion_data, fault) ==
    LET built == IF emotion_data = NoData /\ emotion # None
                 THEN [dominant_emotion |-> emotion,
                       dominant_score |-> 100,
                       suggested_genres |-> IF genre # None THEN <<genre>> ELSE <<"pop">>,
                       dimensions |-> [valence |-> 50, energy |-> 50]]
                 ELSE emotion_data
        interaction == [timestamp |-> clock, user_input |-> user_text, emotion_data |-> built]
    IN  IF fault
        THEN UNCHANGED <<history_file, profile, profile_file, recorded, secure_files>>
             /\ clock' = clock + 1
        ELSE /\ history_file' = SaveInteraction(interaction)
             /\ recorded' = Append(recorded, interaction)
             /\ clock' = clock + 1
             /\ UNCHANGED secure_files
             /\ IF emotion # None THEN UpdateStatistics(emotion)
                ELSE UNCHANGED <<profile, profile_file>>

\* ConversationMemory.get_conversation_context raises on interaction['user_input'][:100]
\* when a recent interaction was recorded without a text
ConversationContextRaises ==
    \E i \in DOMAIN GetRecentInteractions(MEMORY_WINDOW) :
        GetRecentInteractions(MEMORY_WINDOW)[i].user_input = None

\* ConversationMemory.get_conversation_context: the lines of the summary
GetConversationContext ==
    LET recent == GetRecentInteractions(MEMORY_WINDOW)
    IN  [i \in 1..Len(recent) |->
            [user |-> recent[i].user_input,
             emotion |-> IF recent[i].emotion_data # NoData
                         THEN recent[i].emotion_data.dominant_emotion ELSE None]]

\* ConversationMemory.get_emotion_history
GetEmotionHistory ==
    LET with_data == SelectSeq(GetRecentInteractions(EMOTION_HISTORY_N),
                               LAMBDA it : it.emotion_data # NoData)
    IN  [i \in 1..Len(with_data) |->
            [timestamp |-> with_data[i].timestamp,
             emotion |-> with_data[i].emotion_data.dominant_emotion]]

DefaultContext ==
    [conversation_context |-> <<>>,
     music_preferences |-> [total_interactions |-> 0],
     emotion_history |-> <<>>]

\* ContextManager.get_enriched_context; `fault` is any exception inside its try
GetEnrichedContext(fault) ==
    IF fault \/ ConversationContextRaises THEN DefaultContext
    ELSE [conversation_context |-> GetConversationContext,
          \* get_music_preferences is None without history: the default is used
          music_preferences |-> [total_interactions |-> Len(LoadFullHistory)],
          emotion_history |-> GetEmotionHistory]

\* MusicRecommender._get_safe_context
GetSafeContext(fault) == GetEnrichedContext(fault)

\* ConversationMemory.get_music_preferences: None without interactions
GetMusicPreferences ==
    IF LoadFullHistory = <<>> THEN None
    ELSE [total_interactions |-> Len(LoadFullHistory)]

ClearHistoryKept == history_file

\* ConversationMemory.clear_history: os.remove of the history file if it exists
ClearHistory == NoFile

\* UserProfile._load_profile: the profile it returns
LoadProfile == IF Readable(profile_file) THEN profile_file.profile ELSE DefaultProfile

\* UserProfile._load_profile: the file it leaves behind; a legacy file is
\* rewritten by _save_profile_internal(profile)
MigratedProfile ==
    IF profile_file.fmt = "plain" THEN [fmt |-> "enc", profile |-> profile_file.profile]
    ELSE profile_file

\* ContextManager.__init__ in a new process: UserProfile.__init__ loads the
\* profile, ConversationMemory.__init__ reads nothing
OpenContext ==
    /\ profile' = LoadProfile
    /\ profile_file' = MigratedProfile
    /\ ret' = [op |-> "open_context", raised |-> FALSE, found |-> profile_file]
    /\ UNCHANGED <<backend, storeVars, history_file, clock, recorded, secure_files>>

\* ConversationMemory.get_recent_interactions(n) with n at least the length:
\* one _load_full_history
ReadHistory ==
    /\ history_file' = MigratedHistory
    /\ ret' = [op |-> "load_history", raised |-> FALSE, found |-> history_file,
               history |-> LoadFullHistory]
    /\ UNCHANGED <<backend, storeVars, profile, profile_file, clock, recorded, secure_files>>

\* UserProfile.update_statistics called on its own
UpdateStatisticsCall(emotion) ==
    /\ UpdateStatistics(emotion)
    /\ clock' = clock + 1
    /\ ret' = [op |-> "update_statistics", raised |-> FALSE, emotion |-> emotion]
    /\ UNCHANGED <<backend, storeVars, history_file, recorded, secure_files>>

Torn == [fmt |-> "torn", history |-> <<>>, profile |-> DefaultProfile]

\* _save_interaction, lines 210-213, interrupted between open(path, 'w'), which
\* empties the file, and the end of f.write
CrashInSaveInteraction(interaction) ==
    /\ history_file' = Torn
    /\ clock' = clock + 1
    /\ ret' = [op |-> "crash", raised |-> TRUE, file |-> "history",
               before |-> LoadFullHistory,
               after |-> SaveInteraction(interaction).history]
    /\ UNCHANGED <<backend, storeVars, profile, profile_file, recorded, secure_files>>

\* update_statistics interrupted inside _save_profile_internal, lines 181-183;
\* the process is gone, the next one loads the profile from the file
CrashInSaveProfile(emotion) ==
    /\ profile_file' = Torn
    /\ profile' = DefaultProfile
    /\ clock' = clock + 1
    /\ ret' = [op |-> "crash", raised |-> TRUE, file |-> "profile",
               before |-> LoadProfile,
               after |-> [profile EXCEPT !.total_sessions = @ + 1,
                                         !.most_common_emotion = IF emotion # None THEN emotion ELSE @,
                                         !.last_session = clock]]
    /\ UNCHANGED <<backend, storeVars, history_file, recorded, secure_files>>

\* ContextManager.clear_all
ContextClearAll ==
    /\ history_file' = ClearHistory
    /\ ret' = [op |-> "clear_all", raised |-> FALSE, had |-> Len(LoadFullHistory)]
    /\ UNCHANGED <<backend, storeVars, profile, profile_file, clock, recorded, secure_files>>

----------------------------------------------------------------------------
(* MusicRecommender *)

\* MusicRecommender._create_enriched_query, as the words appended to the text
CreateEnrichedQuery(original_text, emotion_data) ==
    LET energy == emotion_data.dimensions.energy
        valence == emotion_data.dimensions.valence
    IN  <<original_text, emotion_data.dominant_emotion>>
        \o (IF energy > 70 THEN <<"energetica">> ELSE IF energy < 30 THEN <<"tranquila">> ELSE <<>>)
        \o (IF valence > 70 THEN <<"alegre">> ELSE IF valence < 30 THEN <<"melancolica">> ELSE <<>>)

\* MusicRecommender._generate_simple_explanation
GenerateSimpleExplanation(emotion_data) ==
    LET energy == emotion_data.dimensions.energy
    IN  <<"Musica para cuando te sientes", emotion_data.dominant_emotion>>
        \o (IF energy < 30 THEN <<"con ritmo suave">>
            ELSE IF energy > 70 THEN <<"con mucha energia">> ELSE <<>>)
        \o <<".">>

\* recommend, lines 109-126: whether the complementary query on the second
\* suggested genre is issued
SecondaryIssued(q, suggested_genres, n_results, randomize) ==
    LET search_n == IF randomize THEN n_results * 2 ELSE n_results
    IN  /\ suggested_genres # <<>>
        /\ Len(StoreSearch(q, search_n, suggested_genres[1])) < search_n \div 2
        /\ Len(suggested_genres) > 1

\* recommend, lines 105-156: the primary query and the complementary one
Retrieved(q, suggested_genres, n_results, randomize) ==
    LET search_n == IF randomize THEN n_results * 2 ELSE n_results
    IN  IF suggested_genres # <<>>
        THEN LET primary == StoreSearch(q, search_n, suggested_genres[1])
             IN  IF Len(primary) < search_n \div 2 /\ Len(suggested_genres) > 1
                 THEN primary \o StoreSearch(q, search_n - Len(primary), suggested_genres[2])
                 ELSE primary
        ELSE StoreSearch(q, search_n, NoFilter)

\* The orders random.shuffle can leave in the first m places of a list of r elements
ShufflePrefixes(r, m) ==
    {f \in [1..m -> 1..r] : \A i, j \in 1..m : f[i] = f[j] => i = j}

RandomizedUntrimmed(vector_results, n_results, randomize) ==
    IF randomize /\ Len(vector_results) > n_results
    THEN LET top_results == Take(vector_results, n_results \div 2)
             remaining == Drop(vector_results, n_results \div 2)
         IN  {top_results \o [i \in 1..Len(remaining) |-> remaining[f[i]]] :
                 f \in ShufflePrefixes(Len(remaining), Len(remaining))}
    ELSE IF Len(vector_results) > n_results
    THEN {Take(vector_results, n_results)}
    ELSE {vector_results}

\* recommend, lines 158-167: every list the randomisation (or the cut) can give
Randomized(vector_results, n_results, randomize) ==
    IF randomize /\ Len(vector_results) > n_results
    THEN LET top_results == Take(vector_results, n_results \div 2)
             remaining == Drop(vector_results, n_results \div 2)
             m == Min(n_results - Len(top_results), Len(remaining))
         IN  {top_results \o [i \in 1..m |-> remaining[f[i]]] :
                 f \in ShufflePrefixes(Len(remaining), m)}
    ELSE IF Len(vector_results) > n_results
    THEN {Take(vector_results, n_results)}
    ELSE {vector_results}

\* recommend, lines 99-172: the lists the search block can leave in vector_results.
\* encode_fault: embedder.encode raises, which the except of line 169 swallows.
VectorResults(q, user_input, emotion_data, n_results, randomize, encode_fault) ==
    IF StoreCount > 0 /\ ~encode_fault /\ CreateEnrichedQuery(user_input, emotion_data) # <<>>
    THEN Randomized(Retrieved(q, emotion_data.suggested_genres, n_results, randomize),
                    n_results, randomize)
    ELSE {<<>>}

RecordStepUnlessEmpty(user_input, emotion_data, rec_fault) ==
    IF StoreCount = 0
    THEN UNCHANGED <<history_file, profile, profile_file, recorded, secure_files>>
         /\ clock' = clock + 1
    ELSE ContextAddInteraction(user_input, None, None, emotion_data, rec_fault)

\* recommend, lines 176-183: add_interaction is called for every request, in a try
RecordStep(user_input, emotion_data, rec_fault) ==
    ContextAddInteraction(user_input, None, None, emotion_data, rec_fault)

AddInteractionUncaught(rec_fault) == rec_fault

\* recommend, lines 182-183: whether an exception of add_interaction leaves
\* recommend; the except clause catches every Exception and logs it
AddInteractionEscapes(rec_fault) == FALSE

\* MusicRecommender.recommend.  emotion/confidence: what the models make of the
\* text; q: the embedding of the enriched query; the faults: exceptions raised
\* in get_enriched_context, in embedder.encode and in add_interaction.
Recommend(user_input, emotion, confidence, q, n_results, randomize, ctx_fault, encode_fault, rec_fault) ==
    LET enriched_context == GetSafeContext(ctx_fault)
        emotion_data == Analyze(user_input, emotion, confidence)
        explanation == GenerateSimpleExplanation(emotion_data)
        call == [user_input |-> user_input, q |-> q, n_results |-> n_results,
                 randomize |-> randomize, ctx_fault |-> ctx_fault,
                 encode_fault |-> encode_fault, rec_fault |-> rec_fault]
    IN  /\ \E vector_results \in VectorResults(q, user_input, emotion_data, n_results,
                                                randomize, encode_fault) :
               ret' = IF AddInteractionEscapes(rec_fault)
                      THEN [op |-> "recommend", raised |-> TRUE] @@ call
                      ELSE
                      [op |-> "recommend",
                       raised |-> FALSE,
                       emotion_analysis |-> emotion_data,
                       music_recommendations |-> <<>>,
                       vector_results |-> vector_results,
                       context_playlists |-> <<>>,
                       explanation |-> explanation,
                       enriched_context |-> enriched_context]
                      \* the call itself, kept to state properties of its result
                      @@ call
        /\ RecordStep(user_input, emotion_data, rec_fault)
        /\ UNCHANGED <<backend, storeVars>>

\* ContextManager.add_interaction called on its own (emotion and genre only,
\* or with an emotion_data)
AddInteraction(user_text, emotion, genre, emotion_data) ==
    /\ ContextAddInteraction(user_text, emotion, genre, emotion_data, FALSE)
    /\ ret' = [op |-> "add_interaction", emotion |-> emotion]
    /\ UNCHANGED <<backend, storeVars>>

----------------------------------------------------------------------------
(* Specifications *)

Backends == {"faiss", "chroma"}

\* A user without files, before the first call
InitMemory ==
    /\ history_file = NoFile
    /\ profile = DefaultProfile
    /\ profile_file = [fmt |-> "none", profile |-> DefaultProfile]
    /\ clock = 1
    /\ recorded = <<>>
    /\ secure_files = NoSecureFiles
    /\ ret = [op |-> "init"]

\* FAISSStore.__init__ / ChromaStore.__init__ on an empty directory
InitEmptyStore ==
    /\ backend \in Backends
    /\ index = <<>>
    /\ metadata = <<>>
    /\ id_to_idx = EmptyIdMap
    /\ collection = <<>>
    /\ disk = IF backend = "faiss" THEN FaissNoFiles ELSE <<>>

SeqsUpTo(S, n) == UNION {[1..m -> S] : m \in 0..n}

Songs == [id : Ids, genre : StoreGenres]

\* scripts/populate_db.py: the catalogue is ingested playlist by playlist; the
\* tracks of a playlist share its genre and the embedding of its mood phrase,
\* and every track has its own id.
RECURSIVE PlaylistGenres(_)
PlaylistGenres(playlists) ==
    IF playlists = <<>> THEN <<>>
    ELSE [i \in 1..Head(playlists).n |-> Head(playlists).genre] \o PlaylistGenres(Tail(playlists))

RECURSIVE PlaylistEmbeddings(_)
PlaylistEmbeddings(playlists) ==
    IF playlists = <<>> THEN <<>>
    ELSE [i \in 1..Head(playlists).n |-> Head(playlists).emb] \o PlaylistEmbeddings(Tail(playlists))

\* The store a constructor finds in a directory populated with `playlists`
InitCatalogue(playlists) ==
    LET genres == PlaylistGenres(playlists)
        songs == [i \in 1..Len(genres) |-> [id |-> i, genre |-> genres[i]]]
        embeddings == PlaylistEmbeddings(playlists)
    IN  /\ backend \in Backends
        /\ IF backend = "faiss"
           THEN /\ index = embeddings
                /\ metadata = songs
                /\ id_to_idx = FaissIdMap(EmptyIdMap, songs, 0)
                /\ collection = <<>>
                /\ disk = FaissSaved(index, metadata, id_to_idx)
           ELSE /\ index = <<>>
                /\ metadata = <<>>
                /\ id_to_idx = EmptyIdMap
                /\ collection = [i \in 1..Len(songs) |->
                                    [id |-> i, genre |-> genres[i], emb |-> embeddings[i]]]
                /\ disk = collection

\* The store on its own: batches added, searches, clear_all
InitStore == InitEmptyStore /\ InitMemory

NextStore ==
    \/ \E n \in 0..(MaxSongs - StoreCount) :
          \E songs \in [1..n -> Songs], embeddings \in [1..n -> Emb] :
             AddSongs(songs, embeddings)
    \/ ClearAll
    \/ \E q \in Emb, n_results \in 1..MaxK, filter \in StoreGenres \cup {NoFilter} :
          Search(q, n_results, filter)

SpecStore == InitStore /\ [][NextStore]_vars

\* The store and its directory: batches added with the failures add_songs can
\* meet, clear_all, searches, and the process restarting on the same directory
InitDisk == InitEmptyStore /\ InitMemory

\* The tracks a client of this run has to add
DiskTracks == {[id |-> 1, genre |-> "rock"], [id |-> 2, genre |-> "pop"]}

\* The longest list the open store holds (vectors or metadata records)
StoreLength ==
    IF backend = "faiss"
    THEN (IF Len(index) > Len(metadata) THEN Len(index) ELSE Len(metadata))
    ELSE ChromaCount

NextDisk ==
    \/ \E n \in 0..(DiskSongs - StoreLength) :
          \E songs \in [1..n -> DiskTracks], embeddings \in [1..n -> Emb],
             dim_ok \in BOOLEAN, bad_at \in 0..n, outcome \in SaveOutcomes :
             \* a collection takes its dimension from the first batch it is given
             /\ dim_ok \/ backend = "faiss" \/ ChromaCount > 0
             /\ AddSongsIO(songs, embeddings, dim_ok, bad_at, outcome)
    \/ \E outcome \in SaveOutcomes : ClearAllIO(outcome)
    \/ Reopen
    \/ \E q \in Emb, n_results \in 1..MaxK, filter \in StoreGenres \cup {NoFilter} :
          Search(q, n_results, filter)

SpecDisk == InitDisk /\ [][NextDisk]_vars

\* The analyzer on its own: one analyze call on any text, with any outcome of
\* the models and any failing step
ModelScores == {0, 80, 81, 100}
Similarities == {30, 31, 35, 36}

InitAnalyze == InitEmptyStore /\ InitMemory

NextAnalyze ==
    /\ ret.op = "init"
    /\ \E text \in SeqsUpTo(Chars, MaxText), sentiment \in SentimentLabels,
          confidence \in ModelScores, most_similar \in ActivityTypes,
          max_similarity \in Similarities, fault \in AnalyzeFaults :
          AnalyzeText(text, sentiment, confidence, most_similar, max_similarity, fault)

SpecAnalyze == InitAnalyze /\ [][NextAnalyze]_vars

\* The analyzer on texts around and beyond the 512 characters handed to the
\* sentiment model: a run of letters, an activity before it or none, and an
\* activity after it or none
Pad(n) == [i \in 1..n |-> "a"]

PadLengths == {3, TEXT_WINDOW - 7, TEXT_WINDOW - 6, TEXT_WINDOW}

TextHeads == {<<>>, <<"p", "a", "r", "a", " ", "r", " ">>}

TextTails == {<<" ", "p", "a", "r", "a", " ", "x">>, <<" ", "P", "a", "r", "a", " ", "x", " ", "r">>, <<" ", "x">>}

LongTexts == {head \o Pad(n) \o tail : head \in TextHeads, n \in PadLengths, tail \in TextTails}

InitLong == InitEmptyStore /\ InitMemory

NextLong ==
    /\ ret.op = "init"
    /\ \E text \in LongTexts, sentiment \in {"positive", "negative"},
          confidence \in {81}, most_similar \in {"workout"},
          max_similarity \in {31, 36}, fault \in AnalyzeFaults :
          AnalyzeTextTraced(text, sentiment, confidence, most_similar, max_similarity, fault)

SpecLong == InitLong /\ [][NextLong]_vars

\* The dicts handed to encrypt_dict: scalars, lists of scalars and dicts of
\* scalars under string keys, one of them not ASCII
JsonScalars ==
    {PyNone, PyInt(102), PyStr(<<EAcute, Quote, Backslash, Newline>>)}

JsonKeys == {<<"a">>, <<EAcute>>}

KeySeqs(n) ==
    {ks \in SeqsUpTo(JsonKeys, n) : \A i, j \in DOMAIN ks : ks[i] = ks[j] => i = j}

DictsOver(values, n) ==
    UNION {{PyDict([i \in DOMAIN ks |-> [key |-> ks[i], value |-> vs[i]]]) :
               vs \in [DOMAIN ks -> values]} : ks \in KeySeqs(n)}

JsonLists == {PyList(items) : items \in SeqsUpTo(JsonScalars, MaxItems)}

JsonValues == JsonScalars \cup JsonLists \cup DictsOver(JsonScalars, 1)

JsonObjects == DictsOver(JsonValues, MaxItems)

Plaintexts == {PyStr(<<>>), PyStr(<<"a", EAcute>>)}

\* Texts that never were a ciphertext, and an argument that is no str at all
MalformedTexts == {PyStr(<<>>), PyStr(<<"a">>), PyStr(<<"a", "a", "a", "a">>),
                   PyStr(<<"{", "}">>), PyNone}

InitCrypto == InitEmptyStore /\ InitMemory /\ backend = "faiss"

NextCrypto ==
    /\ ret.op = "init"
    /\ \/ \E master_password \in MasterKeys, iv \in IVs, data_dict \in JsonObjects :
              EncryptDecryptDict(master_password, iv, data_dict)
       \/ \E master_password \in MasterKeys, written_with \in MasterKeys, iv \in IVs,
              plaintext \in Plaintexts, damage \in Damages :
              DecryptCiphertext(master_password, written_with, iv, plaintext, damage)
       \/ \E master_password \in MasterKeys, encrypted_text \in MalformedTexts :
              DecryptMalformed(master_password, encrypted_text)

SpecCrypto == InitCrypto /\ [][NextCrypto]_vars

\* What save_secure is handed: every short string over these characters, and dicts
SecureChars == {"0", "a", "{", "}"}

SecureData ==
    {PyStr(s) : s \in SeqsUpTo(SecureChars, MaxStr)}
    \cup {PyDict(<<>>), PyDict(<<[key |-> <<"a">>, value |-> PyStr(<<"1">>)]>>)}

InitSecure == InitEmptyStore /\ InitMemory /\ backend = "faiss"

NextSecure ==
    \/ \E key \in SecureKeys, data \in SecureData, iv \in IVs : SaveSecure(key, data, iv)
    \/ \E key \in SecureKeys : LoadSecureCall(key)
    \/ \E key \in SecureKeys : DeleteSecure(key)

SpecSecure == InitSecure /\ [][NextSecure]_vars

\* Files a user's memory directory can hold when a process starts
MaxFileCalls == 2   \* SpecFiles: calls that write, per behaviour

StoredInteractions ==
    <<[timestamp |-> NoTime, user_input |-> "hola",
       emotion_data |-> BuildEmotionResponse("joy", 80)],
      [timestamp |-> NoTime, user_input |-> "entrenar",
       emotion_data |-> BuildEmotionResponse("workout", 80)]>>

StoredHistories == {Take(StoredInteractions, n) : n \in 0..MAX_CONVERSATION_HISTORY}

UsedProfile ==
    [DefaultProfile EXCEPT !.total_sessions = 1, !.most_common_emotion = "joy",
                           !.preferences.favorite_genres = <<"rock">>,
                           !.listening_history = <<"track">>]

HistoryFiles ==
    {NoFile} \cup {[fmt |-> f, history |-> h] : f \in {"enc", "plain", "foreign"},
                                               h \in StoredHistories}

ProfileFiles ==
    {[fmt |-> "none", profile |-> DefaultProfile]}
    \cup {[fmt |-> f, profile |-> p] : f \in {"enc", "plain", "foreign"},
                                      p \in {DefaultProfile, UsedProfile}}

\* The directory as a new process finds it; the profile is loaded by OpenContext
InitFiles ==
    /\ InitEmptyStore
    /\ backend = "faiss"
    /\ history_file \in HistoryFiles
    /\ profile_file \in ProfileFiles
    /\ profile = DefaultProfile
    /\ clock = 1
    /\ recorded = <<>>
    /\ secure_files = NoSecureFiles
    /\ ret = [op |-> "init"]

NextFiles ==
    \/ OpenContext
    \/ /\ ret.op # "init"
       /\ \/ ReadHistory
          \/ ContextClearAll
          \/ /\ clock <= MaxFileCalls
             /\ \/ \E emotion \in {None, "anger"} :
                      AddInteraction("entrenar", emotion, None,
                                     BuildEmotionResponse("workout", 80))
                \/ \E emotion \in {None, "anger"} : UpdateStatisticsCall(emotion)
                \/ CrashInSaveInteraction([timestamp |-> clock, user_input |-> "entrenar",
                                           emotion_data |-> BuildEmotionResponse("workout", 80)])
                \/ \E emotion \in {None, "anger"} : CrashInSaveProfile(emotion)

SpecFiles == InitFiles /\ [][NextFiles]_vars

\* What the models make of a non-empty text, and with what confidence
TextEmotions == {"anger", "workout"}
Confidences == {80}
Texts == {"", "entrenar"}
QueryEmb == 0   \* the direction of the enriched query

Playlists(genres, embs, tracks, playlists) ==
    SeqsUpTo([genre : genres, emb : embs, n : 1..tracks], playlists)

\* One recommend with the inputs of a ranking run, no fault
RankOnce(max_k) ==
    /\ ret.op = "init"
    /\ \E user_input \in Texts, emotion \in TextEmotions, confidence \in Confidences,
          n_results \in 1..max_k, randomize \in BOOLEAN :
          Recommend(user_input, emotion, confidence, QueryEmb, n_results, randomize,
                    FALSE, FALSE, FALSE)

\* The ranker: one recommend on a catalogue of several playlists
InitRank ==
    /\ \E playlists \in Playlists(CatalogueGenres, Emb, MaxTracks, MaxPlaylists) :
          InitCatalogue(playlists)
    /\ InitMemory

NextRank == RankOnce(MaxRankK)

SpecRank == InitRank /\ [][NextRank]_vars

\* The same on catalogues large enough for a filtered FAISS search to look at
\* 2 * n_results vectors and still leave vectors unseen
InitWide ==
    /\ \E playlists \in Playlists(CatalogueGenres, Emb, MaxTracks + 1, MaxPlaylists + 1) :
          InitCatalogue(playlists)
    /\ InitMemory

NextWide == RankOnce(MaxRankK + 1)

SpecWide == InitWide /\ [][NextWide]_vars

\* Searches on an ingested catalogue in which a filtered FAISS search looks at
\* 2 * n_results vectors and leaves vectors unseen
InitSearch ==
    /\ \E playlists \in Playlists(StoreGenres, Emb, MaxTracks + 1, MaxPlaylists) :
          InitCatalogue(playlists)
    /\ InitMemory

NextSearch ==
    /\ ret.op = "init"
    /\ \E q \in Emb, n_results \in 1..MaxK, filter \in StoreGenres \cup {NoFilter} :
          Search(q, n_results, filter)

SpecSearch == InitSearch /\ [][NextSearch]_vars

\* The user's memory over a run of recommend calls, with the faults the
\* recommender is written to survive
MaxCalls == MAX_CONVERSATION_HISTORY + 2

Init ==
    /\ \E playlists \in Playlists({"rock"}, {QueryEmb}, MemTracks, 1) : InitCatalogue(playlists)
    /\ InitMemory

Next ==
    /\ clock <= MaxCalls
    /\ \E user_input \in Texts, randomize \in BOOLEAN,
          ctx_fault \in BOOLEAN, encode_fault \in BOOLEAN, rec_fault \in BOOLEAN :
          Recommend(user_input, "anger", 80, QueryEmb, MemK, randomize,
                    ctx_fault, encode_fault, rec_fault)

Spec == Init /\ [][Next]_vars

\* add_interaction called by the recommender and by other callers
InitCtx == InitEmptyStore /\ InitMemory

NextCtx ==
    /\ clock <= MaxCalls
    /\ \/ \E user_input \in Texts :
             Recommend(user_input, "anger", 80, QueryEmb, MemK, FALSE, FALSE, FALSE, FALSE)
       \/ \E user_text \in {None, "entrenar"}, genre \in {None, "rock"} :
             AddInteraction(user_text, "anger", genre, NoData)
       \/ \E user_text \in {None, "entrenar"} :
             AddInteraction(user_text, None, None, BuildEmotionResponse("workout", 80))

SpecCtx == InitCtx /\ [][NextCtx]_vars

----------------------------------------------------------------------------
(* Properties of the stores *)

\* C2. Filter soundness: in every store state of either back-end, for every
\* query q, every k and every genre g, each record that
\* search(q, k, filter={genre: g}) returns has genre g.
FilterSoundness ==
    \A q \in Emb, k \in 1..MaxK, g \in StoreGenres :
        \A r \in Range(StoreSearch(q, k, g)) : r.genre = g

\* C2 witness: a filtered search has returned a record although a record of
\* another genre is stored nearer to the query.
FilterSoundnessWitness ==
    /\ ret.op = "search"
    /\ ret.filter # NoFilter
    /\ ret.results # <<>>
    /\ \E r \in Range(StoreSearch(ret.q, 1, NoFilter)) :
          r.genre # ret.filter /\ r.distance < ret.results[1].distance

\* C10. After a batch of tracks with distinct ids, one embedding each, is added
\* to an empty store of either back-end, count() is the size of the batch and
\* an unfiltered search with k = |B| returns every track of the batch exactly once.
AddThenSearchAll ==
    (ret.op = "add" /\ ~ret.raised /\ ret.was_empty /\ DistinctIds(ret.songs))
    => /\ StoreCount = Len(ret.songs)
       /\ \A q \in Emb :
             LET results == StoreSearch(q, Len(ret.songs), NoFilter)
             IN  \A s \in Range(ret.songs) :
                    Cardinality({i \in DOMAIN results :
                        results[i].id = s.id /\ results[i].genre = s.genre}) = 1

\* C10 witness: a batch of two distinct tracks has just been added to an empty store.
AddThenSearchAllWitness ==
    /\ ret.op = "add" /\ ~ret.raised /\ ret.was_empty
    /\ Len(ret.songs) = 2
    /\ DistinctIds(ret.songs)
    /\ StoreCount = 2

\* C11 (as claimed). Persistence: when the store is opened again on its
\* directory right after an add that returned successfully, count() and every
\* search answer what they answered before the store was closed.
PersistAcrossReopen ==
    [][(ret'.op = "open" /\ ret.op = "add" /\ ~ret.raised) => Answers' = Answers]_vars

\* C12 (as claimed). track_id uniqueness: after any sequence of add and clear
\* operations no two records of the store share a track id.
UniqueTrackIds ==
    \A i, j \in DOMAIN StoreIds : StoreIds[i] = StoreIds[j] => i = j

\* C13 (as claimed). add is atomic per batch: an add that raises leaves the
\* store's records, its count() and its directory as they were before the call.
AtomicAdd ==
    [][(ret'.op = "add" /\ ret'.raised) => UNCHANGED storeVars]_vars

\* The store answers as an empty store does
AnswersEmpty ==
    /\ StoreCount = 0
    /\ StoreGenreList = {}
    /\ \A c \in DOMAIN Answers.results : Answers.results[c] = <<>>

\* C14 (as claimed). clear_all leaves an empty store: right after it count() is
\* 0, the genre list is empty and every search returns []; and the store
\* opened again on the directory right after the clear is empty as well.
ClearLeavesEmpty ==
    /\ ret.op = "clear" => AnswersEmpty
    /\ (ret.op = "open" /\ ret.after = "clear") => AnswersEmpty

\* C29 (as claimed). In the FAISS back-end a search filtered on a genre
\* returns min(n_results, number of stored tracks of the genre) records: the
\* nearest tracks of that genre, nearest first, however many tracks of other
\* genres lie nearer to the query.
FilteredSearchIsExact ==
    (ret.op = "search" /\ backend = "faiss" /\ ret.filter # NoFilter)
    => LET matching == {i \in DOMAIN metadata : metadata[i].genre = ret.filter}
           res == ret.results
           returned == {i \in matching : \E r \in DOMAIN res : res[r].id = metadata[i].id}
       IN  /\ Len(res) = Min(ret.n_results, Cardinality(matching))
           /\ \A r \in DOMAIN res : res[r].genre = ret.filter
           /\ \A r, t \in DOMAIN res : r < t => res[r].distance <= res[t].distance
           /\ \A i \in matching \ returned, r \in DOMAIN res :
                 res[r].distance <= Dist(index[i], ret.q)

\* C30 (as claimed). In the FAISS back-end, after any sequence of add_songs and
\* clear_all calls, those that raise included, count() is the number of
\* metadata entries, so that entry i stands for vector i, and id_to_idx maps
\* every stored id to the position of an entry with that id.
FaissListsAligned ==
    backend = "faiss"
    => /\ FaissCount = Len(metadata)
       /\ \A i \in DOMAIN metadata : metadata[i].id \in DOMAIN id_to_idx
       /\ \A id \in DOMAIN id_to_idx :
             id_to_idx[id] \in DOMAIN metadata /\ metadata[id_to_idx[id]].id = id

----------------------------------------------------------------------------
(* Properties of the analyzer *)

\* C15. For every text and every outcome of the sentiment and embedding
\* models, analyze returns a state with a non-empty suggested_genres, a
\* dominant_score in [0,1] and valence and energy in [0,1].
AnalyzeWellFormed ==
    ret.op = "analyze"
    => /\ ~ret.raised
       /\ ret.response.suggested_genres # <<>>
       /\ ret.response.dominant_score \in 0..100
       /\ ret.response.dimensions.valence \in 0..100
       /\ ret.response.dimensions.energy \in 0..100

\* C15 witness: a label the mappings do not know, at confidence 1, with no
\* step failing, came out as neutral with score 1.
AnalyzeWellFormedWitness ==
    /\ ret.op = "analyze" /\ ret.fault = "none"
    /\ ret.sentiment = "5 stars" /\ ret.confidence = 100
    /\ ret.max_similarity = 30
    /\ ret.response.dominant_emotion = "neutral"
    /\ ret.response.dominant_score = 100

\* C16 (as claimed). If any step of analyze throws, analyze returns exactly the
\* neutral default: neutral, 0.5, neutral's genres and dimensions.
FaultGivesNeutralDefault ==
    (ret.op = "analyze" /\ ret.fault # "none")
    => /\ ~ret.raised
       /\ ret.response = [dominant_emotion |-> "neutral", dominant_score |-> 50,
                          suggested_genres |-> <<"pop", "happy", "party">>,
                          dimensions |-> [valence |-> 50, energy |-> 50]]

\* C17. For every empty or whitespace-only text analyze returns neutral, 0.5
\* and [pop, happy, party], and calls neither the sentiment model nor the embedder.
BlankTextIsNeutral ==
    (ret.op = "analyze" /\ \A i \in DOMAIN ret.text : ret.text[i] = " ")
    => /\ ret.response.dominant_emotion = "neutral"
       /\ ret.response.dominant_score = 50
       /\ ret.response.suggested_genres = <<"pop", "happy", "party">>
       /\ ret.calls = <<>>

\* C17 witness: a text of two spaces was analyzed while the models would have
\* said positive, happy, and the sentiment call would have raised.
BlankTextIsNeutralWitness ==
    /\ ret.op = "analyze"
    /\ ret.text = <<" ", " ">>
    /\ ret.sentiment = "positive" /\ ret.most_similar = "happy" /\ ret.max_similarity = 36
    /\ ret.response.dominant_emotion = "neutral"

ActivityFromWholeText ==
    (ret.op = "analyze" /\ "embedder" \in Range(ret.calls))
    => /\ ret.text_clean = Take(Strip(ret.text), TEXT_WINDOW)
       /\ LET whole == ExtractActivityContext(Strip(ret.text))
          IN  whole.found => ret.context = whole.context

----------------------------------------------------------------------------
(* Properties of the encryption *)

IntegrityFailure ==
    /\ ret.op = "decrypt_string"
    /\ ret.encrypted_text.t = "str"
    /\ \/ ret.malformed
       \/ ret.damage # "none"
       \/ ret.master_password # ret.written_with

\* C19: on every integrity failure (a ciphertext of another master secret, a
\* tampered ciphertext, a malformed text) decrypt_string raises the same
\* ValueError, 'Failed to decrypt data - invalid key or corrupted data', and
\* returns no plaintext.
DecryptFailsClosed ==
    IntegrityFailure =>
        ret.result = [ok |-> FALSE, error |-> "ValueError",
                      message |-> "Failed to decrypt data - invalid key or corrupted data"]

DecryptFailsClosedWitness ==
    /\ IntegrityFailure
    /\ ret.damage = "ciphertext"
    /\ ret.master_password = ret.written_with
    /\ ~ret.result.ok

\* C20: SecureStorage is a map from keys to values.  load_secure(k) returns the
\* value last saved under k, a dict or any string, with its type and content,
\* and None when k was never saved or was deleted; a save or a delete of one
\* key leaves what every other key loads as it was.
SecureStorageIsMap ==
    [][/\ ret'.op = "save_secure" =>
              LoadSecureFrom(secure_files', ret'.key) = [ok |-> TRUE, value |-> ret'.data]
       /\ ret'.op = "delete_secure" =>
              LoadSecureFrom(secure_files', ret'.key) = [ok |-> TRUE, value |-> PyNone]
       /\ ret'.op \in {"save_secure", "delete_secure"} =>
              \A k \in SecureKeys \ {ret'.key} : LoadSecure(k)' = LoadSecure(k)
       /\ ret'.op = "load_secure" =>
              /\ ret'.result = LoadSecure(ret'.key)
              /\ \A k \in SecureKeys : LoadSecure(k)' = LoadSecure(k)]_vars

----------------------------------------------------------------------------
(* Properties of the memory *)

RollingCap ==
    /\ Len(LoadFullHistory) <= MAX_CONVERSATION_HISTORY
    /\ GetRecentInteractions(MaxCalls) = LastN(recorded, MAX_CONVERSATION_HISTORY)

\* C1 witness: more than MAX_CONVERSATION_HISTORY + 1 calls have been recorded.
RollingCapWitness ==
    /\ ret.op = "recommend"
    /\ Len(recorded) = MAX_CONVERSATION_HISTORY + 2
    /\ Len(LoadFullHistory) = MAX_CONVERSATION_HISTORY

\* recommend calls recorded before the call that returned `ret`
RecordedBefore == Len(recorded) - (IF ret.rec_fault THEN 0 ELSE 1)

\* C8. Persist before the next request: the context a recommend call returns
\* (when fetching it did not fail) counts the interactions recorded by the
\* calls before it, capped at MAX_CONVERSATION_HISTORY, and not its own.
PersistBeforeNext ==
    (ret.op = "recommend" /\ ~ret.ctx_fault)
    => ret.enriched_context.music_preferences.total_interactions
          = Min(RecordedBefore, MAX_CONVERSATION_HISTORY)

\* C8 witness: a call that recorded its interaction returned a context that
\* counts the one interaction recorded before it.
PersistBeforeNextWitness ==
    /\ ret.op = "recommend" /\ ~ret.ctx_fault /\ ~ret.rec_fault
    /\ Len(recorded) = 2
    /\ ret.enriched_context.music_preferences.total_interactions = 1

WellFormedEmotion(emotion_data) ==
    /\ emotion_data.dominant_emotion \in Emotions
    /\ emotion_data.dominant_score \in 0..100
    /\ emotion_data.suggested_genres # <<>>
    /\ emotion_data.dimensions.valence \in 0..100
    /\ emotion_data.dimensions.energy \in 0..100

\* C7. On an empty catalogue every search returns the empty list, and recommend
\* returns vector_results = [] with a well-formed emotion_analysis and a
\* non-empty explanation, and (unless writing the log fails) the log ends with
\* the interaction of this call.
EmptyCatalogue ==
    StoreCount = 0
    => /\ \A q \in Emb, k \in 1..MaxK, filter \in CatalogueGenres \cup {NoFilter} :
             StoreSearch(q, k, filter) = <<>>
       /\ ret.op = "recommend"
          => /\ ret.vector_results = <<>>
             /\ WellFormedEmotion(ret.emotion_analysis)
             /\ ret.explanation # <<>>
             /\ ~ret.rec_fault
                => /\ LoadFullHistory # <<>>
                   /\ LoadFullHistory[Len(LoadFullHistory)].user_input = ret.user_input
                   /\ LoadFullHistory[Len(LoadFullHistory)].emotion_data = ret.emotion_analysis
                   /\ LoadFullHistory[Len(LoadFullHistory)].timestamp = clock - 1

\* C7 witness: recommend has returned on an empty catalogue and recorded the call.
EmptyCatalogueWitness ==
    /\ StoreCount = 0
    /\ ret.op = "recommend" /\ ~ret.rec_fault /\ ~ret.encode_fault
    /\ ret.vector_results = <<>>
    /\ Len(LoadFullHistory) = 1

BundleKeys == {"emotion_analysis", "vector_results", "explanation", "enriched_context",
               "music_recommendations", "context_playlists"}

\* C6. Never-fatal recommend: whatever fails (fetching the context, the
\* embedder in the search block, recording the interaction), recommend does
\* not raise and returns the whole bundle, with a context that has its
\* music_preferences; and when recording fails, emotion_analysis,
\* vector_results and explanation are those of the same call without that failure.
NeverFatal ==
    ret.op = "recommend"
    => /\ ~ret.raised
       /\ BundleKeys \subseteq DOMAIN ret
       /\ "music_preferences" \in DOMAIN ret.enriched_context
       /\ ret.ctx_fault => ret.enriched_context = DefaultContext
       /\ ret.rec_fault
          => /\ ret.emotion_analysis \in
                   {Analyze(ret.user_input, e, 80) : e \in {"anger"}}
             /\ ret.vector_results \in
                   VectorResults(ret.q, ret.user_input, ret.emotion_analysis,
                                 ret.n_results, ret.randomize, ret.encode_fault)
             /\ ret.explanation = GenerateSimpleExplanation(ret.emotion_analysis)

\* C6 witness: fetching the context and recording both failed in a call that
\* found tracks, for a user with a recorded interaction.
NeverFatalWitness ==
    /\ ret.op = "recommend"
    /\ ret.ctx_fault /\ ret.rec_fault /\ ~ret.encode_fault
    /\ ret.vector_results # <<>>
    /\ LoadFullHistory # <<>>

\* C9 (as claimed). Every add_interaction, from recommend or not, updates the
\* profile: total_sessions is the number of interactions recorded and
\* last_session is set once there is one.
ProfileCountsInteractions ==
    /\ profile.total_sessions = Len(recorded)
    /\ recorded # <<>> => profile.last_session # NoTime

UnreadableHistoryRaises ==
    [][history_file.fmt = "foreign" =>
          /\ ret'.op = "load_history" => ret'.raised
          /\ ret'.op = "add_interaction" => UNCHANGED history_file]_vars

\* C25: every update of a history or profile file is atomic for the file: when
\* the process is interrupted inside the write, the next reader finds the whole
\* previous content or the whole new content, never an empty or truncated file.
WritesAreAtomic ==
    ret.op = "crash" =>
        /\ history_file.fmt # "torn" /\ profile_file.fmt # "torn"
        /\ ret.file = "history" => LoadFullHistory \in {ret.before, ret.after}
        /\ ret.file = "profile" => LoadProfile \in {ret.before, ret.after}

\* C26: each update_statistics call adds one to total_sessions, sets
\* most_common_emotion to the emotion of the call when it supplies one (the
\* latest value, not the mode) and keeps it otherwise, and leaves preferences
\* and listening_history unchanged.
StatisticsFollowCalls ==
    [][ret'.op = "update_statistics" =>
          /\ profile'.total_sessions = profile.total_sessions + 1
          /\ profile'.most_common_emotion =
                 IF ret'.emotion # None THEN ret'.emotion ELSE profile.most_common_emotion
          /\ profile'.preferences = profile.preferences
          /\ profile'.listening_history = profile.listening_history]_vars

StatisticsFollowCallsWitness ==
    /\ ret.op = "update_statistics"
    /\ ret.emotion = "anger"
    /\ profile.most_common_emotion = "anger"
    /\ profile.total_sessions = 3
    /\ profile.preferences.favorite_genres = <<"rock">>

----------------------------------------------------------------------------
(* Properties of the ranking *)

\* The tracks of the catalogue, in insertion order
StoreTracks ==
    IF backend = "faiss" THEN metadata
    ELSE [i \in 1..Len(collection) |-> [id |-> collection[i].id, genre |-> collection[i].genre]]

IdsOfGenre(genre) == {t.id : t \in {u \in Range(StoreTracks) : u.genre = genre}}

TheOne(S) == CHOOSE x \in S : TRUE

\* C4. recommend returns at most n_results entries in vector_results, with or
\* without randomisation, also when the secondary-genre query has run.
AtMostK ==
    ret.op = "recommend" => Len(ret.vector_results) <= ret.n_results

\* C4 witness: a randomised call whose two queries retrieved tracks of both
\* genres, more than n_results in all, returned exactly n_results.
AtMostKWitness ==
    /\ ret.op = "recommend" /\ ret.randomize
    /\ LET retrieved == Retrieved(ret.q, ret.emotion_analysis.suggested_genres,
                                  ret.n_results, TRUE)
       IN  /\ Len(retrieved) > ret.n_results
           /\ \E i, j \in DOMAIN retrieved : retrieved[i].genre # retrieved[j].genre
    /\ Len(ret.vector_results) = ret.n_results

\* C3 (as claimed). Without randomisation, when the catalogue holds p < k/2
\* tracks of the primary genre and a secondary genre exists, the result is the
\* p primary-genre tracks followed by at most k - p tracks of the secondary genre.
FallbackToSecondary ==
    LET genres == ret.emotion_analysis.suggested_genres
        primary == IdsOfGenre(genres[1])
        p == Cardinality(primary)
        vr == ret.vector_results
    IN  (ret.op = "recommend" /\ ~ret.randomize /\ Len(genres) > 1 /\ 2 * p < ret.n_results)
        => /\ Len(vr) >= p
           /\ {vr[i].id : i \in 1..p} = primary
           /\ \A i \in (p + 1)..Len(vr) : vr[i].genre = genres[2]
           /\ Len(vr) - p <= ret.n_results - p

\* C5 (as claimed). The first floor(k/2) entries of a randomised call are those
\* of the same call without randomisation, in the same order; the other
\* entries are distinct tracks among the rest of what was retrieved.
RandomKeepsHead ==
    ret.op = "recommend" /\ ret.randomize
    => LET genres == ret.emotion_analysis.suggested_genres
           h == ret.n_results \div 2
           plain == TheOne(Randomized(Retrieved(ret.q, genres, ret.n_results, FALSE),
                                      ret.n_results, FALSE))
           retrieved == Retrieved(ret.q, genres, ret.n_results, TRUE)
           vr == ret.vector_results
       IN  /\ Take(vr, h) = Take(plain, h)
           /\ \A i \in (h + 1)..Len(vr) : vr[i] \in Range(Drop(retrieved, h))
           /\ \A i, j \in DOMAIN vr : vr[i].id = vr[j].id => i = j

\* C24 (as claimed). The complementary query on the second suggested genre is
\* issued exactly when the primary query returned fewer than n_results / 2
\* records (the floor the randomisation also uses) and a second genre is
\* suggested, with the same bound whether the call randomises or not.
SecondaryBelowHalfOfK ==
    (/\ ret.op = "recommend" /\ ~ret.raised /\ ~ret.encode_fault /\ StoreCount > 0
     /\ CreateEnrichedQuery(ret.user_input, ret.emotion_analysis) # <<>>)
    => LET genres == ret.emotion_analysis.suggested_genres
           search_n == IF ret.randomize THEN ret.n_results * 2 ELSE ret.n_results
           primary == StoreSearch(ret.q, search_n, genres[1])
       IN  SecondaryIssued(ret.q, genres, ret.n_results, ret.randomize)
           <=> (Len(primary) < ret.n_results \div 2 /\ Len(genres) > 1)

====
